---- MODULE Spec2Model ----
(***************************************************************************)
(* Waukesha market statistics: the RPR text extractor (parseRprStats),     *)
(* the waukesha-live and waukesha request handlers, and the timeout        *)
(* wrapper of the rates handler.                                           *)
(*                                                                         *)
(* Text is a sequence of lines; a line is a sequence of characters.  A     *)
(* character is a one-character string, except that a label phrase, a      *)
(* month name and the word "MoM" are each one element: they hold letters   *)
(* and inner blanks only, so no regular expression of the code can match   *)
(* a numeral inside them.                                                  *)
(* Decimal values (monthsSupply) are kept in hundredths.                   *)
(***************************************************************************)
EXTENDS Integers, Sequences, FiniteSets, TLC

VARIABLES
    txt,        \* parseRprStats: its argument (the sanitized text, as lines)
    out,        \* parseRprStats: the record it returned
    ppc,        \* "ready" before the call, "parsed" after it
    oth,        \* the text of a call made between two calls on txt
    mid,        \* the record that call returned
    rep,        \* the record the repeated call on txt returned
    lpc,        \* waukesha-live handler: "idle", "heads", "pdfs", "done"
    env,        \* its surroundings: WAU_UPDATED_AT, the time zone, the clock
    head,       \* per document: "pending" or what headOrByte resolved to
    pdf,        \* per document: "pending" or how fetchPdfText settled
    updatedAt,  \* the handler's local updatedAt (None: null)
    resp,       \* the response sent (status 0: none yet)
    spc,        \* waukesha handler: "idle", "sf", "condo", "ping", "done"
    sreq,       \* its request: the method, the cron header, the clock
    sfet,       \* per document: "pending" or how fetchTextFromPdf ended
    smet,       \* per document: what parseMetrics returned for it
    sresp,      \* the payload built and the response sent (status 0: not sent)
    tpc,        \* rates handler: "idle", "waiting", "done"
    tvar,       \* which withTimeout the build has: "abort" or "race"
    tnow,       \* the time, in seconds
    ttask,      \* per task: the wrapped promise, the timer, withTimeout's promise
    tresp,      \* the response sent (status 0: none yet)
    rbuild,     \* which rates handler the build has: "list" or "merge"
    rclk,       \* Date.now(), in units of five minutes
    CACHE,      \* the module's cache: ts and data (a payload, or null)
    rinv,       \* per invocation of the rates handler: where it is, its locals
    rlast,      \* history: the invocation that assigned CACHE last (0: none)
    carg,       \* the arguments of a function applied on its own (round1, a
                \* check of sane, normalizeRateApr, ...): fn and its inputs
    cret,       \* what the function returned
    cpc         \* "ready" before the call, "applied" after it

parseVars == <<txt, out, ppc, oth, mid, rep>>
liveVars == <<lpc, env, head, pdf, updatedAt, resp>>
statsVars == <<spc, sreq, sfet, smet, sresp>>
timeVars == <<tpc, tvar, tnow, ttask, tresp>>
rateVars == <<rbuild, rclk, CACHE, rinv, rlast>>
saneVars == <<carg, cret, cpc>>
vars == <<parseVars, liveVars, statsVars, timeVars, rateVars, saneVars>>

\* What the actions of one component leave alone.
notParse == <<liveVars, statsVars, timeVars, rateVars, saneVars>>
notLive == <<parseVars, statsVars, timeVars, rateVars, saneVars>>
notStats == <<parseVars, liveVars, timeVars, rateVars, saneVars>>
notTime == <<parseVars, liveVars, statsVars, rateVars, saneVars>>
notRates == <<parseVars, liveVars, statsVars, timeVars, saneVars>>
notSane == <<parseVars, liveVars, statsVars, timeVars, rateVars>>

(***************************************************************************)
(* Optional values: null is None, a number n is Some(n).                   *)
(***************************************************************************)
None == [nil |-> TRUE, v |-> 0]
Some(n) == [nil |-> FALSE, v |-> n]

Min(S) == CHOOSE x \in S : \A y \in S : x <= y
Max(S) == CHOOSE x \in S : \A y \in S : x >= y

(***************************************************************************)
(* Characters.                                                             *)
(***************************************************************************)
Digits == {"0", "1", "2", "3", "4", "5", "6", "7", "8", "9"}
IsDigit(c) == c \in Digits
DigitVal(c) ==
    CASE c = "0" -> 0 [] c = "1" -> 1 [] c = "2" -> 2 [] c = "3" -> 3
      [] c = "4" -> 4 [] c = "5" -> 5 [] c = "6" -> 6 [] c = "7" -> 7
      [] c = "8" -> 8 [] c = "9" -> 9

\* The label phrases, one element each.
MedianSoldPrice == "Median Sold Price"
ClosedSales == "Closed Sales"
MedianDaysInRPR == "Median Days in RPR"
MonthsOfInventory == "Months of Inventory"
ActiveListings == "Active Listings"

Metrics == {"medianPrice", "closed", "dom", "monthsSupply", "activeListings"}
IntMetrics == Metrics \ {"monthsSupply"}

\* Which metric's label expression a phrase matches.
LabelOf(c) ==
    CASE c = MedianSoldPrice -> "medianPrice"
      [] c = ClosedSales -> "closed"
      [] c = MedianDaysInRPR -> "dom"
      [] c = MonthsOfInventory -> "monthsSupply"
      [] c = ActiveListings -> "activeListings"
      [] OTHER -> "none"

IsSpace(c) == c = " "

(***************************************************************************)
(* String helpers of parseRprStats.                                        *)
(***************************************************************************)
RECURSIVE DecVal(_)
\* parseInt / parseFloat of a run of digits.
DecVal(ds) ==
    IF Len(ds) = 0 THEN 0
    ELSE 10 * DecVal(SubSeq(ds, 1, Len(ds) - 1)) + DigitVal(ds[Len(ds)])

RECURSIVE DigitRun(_, _)
\* The number of digits of s in a row from position q on.
DigitRun(s, q) ==
    IF q <= Len(s) /\ IsDigit(s[q]) THEN 1 + DigitRun(s, q + 1) ELSE 0

RECURSIVE GroupEnd(_, _)
\* (?:,\d{3})* from position r on: the first position it does not consume.
GroupEnd(s, r) ==
    IF r + 3 <= Len(s) /\ s[r] = "," /\ IsDigit(s[r + 1])
       /\ IsDigit(s[r + 2]) /\ IsDigit(s[r + 3])
    THEN GroupEnd(s, r + 4)
    ELSE r

\* Where /-?\d.../ matches first: the leftmost digit, or the '-' before it.
MatchStart(s) ==
    LET cand == {p \in 1..Len(s) :
                    \/ IsDigit(s[p])
                    \/ (s[p] = "-" /\ p < Len(s) /\ IsDigit(s[p + 1]))}
    IN IF cand = {} THEN 0 ELSE Min(cand)

\* String.prototype.trim on a line.
RECURSIVE TrimLeft(_)
TrimLeft(s) == IF Len(s) > 0 /\ IsSpace(s[1]) THEN TrimLeft(Tail(s)) ELSE s
RECURSIVE TrimRight(_)
TrimRight(s) ==
    IF Len(s) > 0 /\ IsSpace(s[Len(s)])
    THEN TrimRight(SubSeq(s, 1, Len(s) - 1)) ELSE s
Trim(s) == TrimRight(TrimLeft(s))

NonEmpty(s) == Len(s) > 0

\* txt.split(/\n/).map(s => s.trim()).filter(Boolean)
RECURSIVE MapTrim(_)
MapTrim(ls) == IF Len(ls) = 0 THEN <<>> ELSE <<Trim(Head(ls))>> \o MapTrim(Tail(ls))
SplitLines(t) == SelectSeq(MapTrim(t), NonEmpty)

(***************************************************************************)
(* parseRprStats of api/waukesha-live.js (first variant).                  *)
(***************************************************************************)
emptyStats == [m \in Metrics |-> None]

\* firstInt: /-?\d{1,3}(?:,\d{3})*|\d+/, separators stripped, parseInt.
\* The first alternative matches wherever the second would, so it always wins.
firstInt(s) ==
    LET p == MatchStart(s) IN
    IF p = 0 THEN None
    ELSE LET neg == s[p] = "-"
             q == IF neg THEN p + 1 ELSE p
             k == Min({3, DigitRun(s, q)})
             e == GroupEnd(s, q + k)
             v == DecVal(SelectSeq(SubSeq(s, q, e - 1), IsDigit))
         IN Some(IF neg THEN 0 - v ELSE v)

\* firstFloat: /-?\d+(?:\.\d+)?/, parseFloat; the value in hundredths (the
\* texts considered carry at most two fractional digits).
firstFloat(s) ==
    LET p == MatchStart(s) IN
    IF p = 0 THEN None
    ELSE LET neg == s[p] = "-"
             q == IF neg THEN p + 1 ELSE p
             n == DigitRun(s, q)
             dot == q + n
             f == IF dot < Len(s) /\ s[dot] = "." THEN DigitRun(s, dot + 1) ELSE 0
             whole == DecVal(SubSeq(s, q, q + n - 1))
             frac == IF f = 0 THEN 0
                     ELSE IF f = 1 THEN 10 * DigitVal(s[dot + 1])
                     ELSE 10 * DigitVal(s[dot + 1]) + DigitVal(s[dot + 2])
             v == 100 * whole + frac
         IN Some(IF neg THEN 0 - v ELSE v)

\* round1: Math.round(n*10)/10, on hundredths (Math.round rounds a tie up).
round1(h) == ((h + 5) \div 10) * 10

\* isNum(raw)
isNum(raw) == ~raw.nil

\* a ?? b
Coalesce(a, b) == IF a.nil THEN b ELSE a

RECURSIVE PickLoop(_, _, _, _)
\* The loop of pickNumberAround: lines i..hi, the first number found.
PickLoop(lines, i, hi, asFloat) ==
    IF i > hi THEN None
    ELSE LET n == IF asFloat THEN firstFloat(lines[i]) ELSE firstInt(lines[i])
         IN IF ~n.nil THEN n ELSE PickLoop(lines, i + 1, hi, asFloat)

\* pickNumberAround(idx, asFloat, lookAhead), lines counted from 1:
\* for (i = idx; i <= Math.min(idx + lookAhead, lines.length - 1); i++)
pickNumberAround(lines, idx, asFloat, lookAhead) ==
    PickLoop(lines, idx, Min({idx + lookAhead, Len(lines)}), asFloat)

\* A label test that accepts every line, whatever it holds.
AnyLineHasLabel(line, m) == Len(line) >= 0

\* /(^|\s)<label>(\s|$)/i.test(line)
HasLabel(line, m) ==
    \E p \in 1..Len(line) :
        /\ LabelOf(line[p]) = m
        /\ (p = 1 \/ IsSpace(line[p - 1]))
        /\ (p = Len(line) \/ IsSpace(line[p + 1]))

LookAheadPrice == 2
LookAheadClosed == 3
LookAheadDom == 2
LookAheadMonths == 2
LookAheadActive == 3

\* The label expressions in the order the loop body tries them.
MetricOrder == <<"medianPrice", "closed", "dom", "monthsSupply", "activeListings">>

LookAheadOf(m) ==
    CASE m = "medianPrice" -> LookAheadPrice
      [] m = "closed" -> LookAheadClosed
      [] m = "dom" -> LookAheadDom
      [] m = "monthsSupply" -> LookAheadMonths
      [] m = "activeListings" -> LookAheadActive

\* One turn of the loop over the lines: the first label expression that
\* matches line i decides, and the turn ends (continue).  Each of the five
\* branches reads `first(line) ?? pickNumberAround(i+1, asFloat, lookAhead)`
\* and stores the number if isNum accepts it, monthsSupply through round1.
ParseLine(lines, i, acc) ==
    LET hits == {k \in 1..5 : HasLabel(lines[i], MetricOrder[k])} IN
    IF hits = {} THEN acc
    ELSE LET m == MetricOrder[Min(hits)]
             asFloat == m = "monthsSupply"
             onLine == IF asFloat THEN firstFloat(lines[i]) ELSE firstInt(lines[i])
             raw == Coalesce(onLine, pickNumberAround(lines, i + 1, asFloat, LookAheadOf(m)))
         IN IF ~isNum(raw) THEN acc
            ELSE [acc EXCEPT ![m] = IF asFloat THEN Some(round1(raw.v)) ELSE raw]

RECURSIVE ParseLoop(_, _, _)
ParseLoop(lines, i, acc) ==
    IF i > Len(lines) THEN acc
    ELSE ParseLoop(lines, i + 1, ParseLine(lines, i, acc))

\* parseRprStats(txt)
parseRprStats(t) ==
    IF Len(t) = 0 THEN emptyStats
    ELSE ParseLoop(SplitLines(t), 1, emptyStats)

\* A record that lives on from one call to the next.
KeptRecord(prev) == prev

\* const out = { medianPrice: null, ... }: the record a call fills is made
\* anew by the call, whatever record the call before it left behind.
CallStart(prev) == emptyStats

\* A call of parseRprStats(txt) made after a call that returned prev: lines,
\* out and the expressions it tests are created by the call itself.
parseCall(t, prev) ==
    IF Len(t) = 0 THEN emptyStats
    ELSE ParseLoop(SplitLines(t), 1, CallStart(prev))

(***************************************************************************)
(* Dates and strings of the waukesha-live handler.  A Date object is a     *)
(* calendar day in UTC, or the Invalid Date; a string is a sequence of     *)
(* characters.                                                             *)
(***************************************************************************)
Docs == {"sf", "condo"}

NullDate == [k |-> "null", y |-> 0, m |-> 0, d |-> 0]
InvalidDate == [k |-> "invalid", y |-> 0, m |-> 0, d |-> 0]
DateOf(y, m, d) == [k |-> "date", y |-> y, m |-> m, d |-> d]

NoStr == [nil |-> TRUE, s |-> <<>>]
Str(s) == [nil |-> FALSE, s |-> s]

\* Date.prototype.getTime, up to a monotonic change of scale (NaN apart).
getTime(D) == (D.y * 12 + D.m) * 31 + D.d

\* new Date(Math.max(...dates.map(d => d.getTime()))): NaN if any is NaN.
NewestOf(dates) ==
    IF \E D \in dates : D.k = "invalid" THEN InvalidDate
    ELSE CHOOSE D \in dates : \A E \in dates : getTime(E) <= getTime(D)

DigitChar(i) == CHOOSE c \in Digits : DigitVal(c) = i

RECURSIVE ToDigits(_)
\* String(n) for an integer n >= 0.
ToDigits(n) ==
    IF n < 10 THEN <<DigitChar(n)>>
    ELSE ToDigits(n \div 10) \o <<DigitChar(n % 10)>>

\* s.padStart(2, "0")
padStart2(s) == IF Len(s) < 2 THEN <<"0">> \o s ELSE s

NaNStr == <<"N", "a", "N">>

\* String(n) for a date component: NaN for the Invalid Date.
NumStr(D, n) == IF D.k = "date" THEN ToDigits(n) ELSE NaNStr

\* ymd(d): `${y}-${m}-${day}` from the UTC getters.
ymd(D) ==
    NumStr(D, D.y) \o <<"-">> \o padStart2(NumStr(D, D.m)) \o <<"-">>
        \o padStart2(NumStr(D, D.d))

\* /^\d{4}-\d{2}-\d{2}$/.test(s)
IsYmdForm(s) ==
    /\ Len(s) = 10
    /\ s[5] = "-" /\ s[8] = "-"
    /\ \A p \in {1, 2, 3, 4, 6, 7, 9, 10} : IsDigit(s[p])

IsLeap(y) == (y % 4 = 0 /\ y % 100 # 0) \/ y % 400 = 0
DaysIn(y, m) ==
    IF m = 2 THEN (IF IsLeap(y) THEN 29 ELSE 28)
    ELSE IF m \in {4, 6, 9, 11} THEN 30 ELSE 31

\* The day before a calendar day.
PrevDay(D) ==
    IF D.d > 1 THEN DateOf(D.y, D.m, D.d - 1)
    ELSE IF D.m > 1 THEN DateOf(D.y, D.m - 1, DaysIn(D.y, D.m - 1))
    ELSE DateOf(D.y - 1, 12, 31)

\* new Date(yy, mm - 1, 1): midnight LOCAL time of the first of the month,
\* as the UTC day the UTC getters of ymd read.  East of Greenwich local
\* midnight is still the day before in UTC.
LocalFirstOfMonth(yy, mm, tz) ==
    IF tz = "east" THEN PrevDay(DateOf(yy, mm, 1)) ELSE DateOf(yy, mm, 1)

MonthNames ==
    <<"January", "February", "March", "April", "May", "June", "July",
      "August", "September", "October", "November", "December">>
IsMonthName(c) == \E i \in 1..12 : MonthNames[i] = c
\* map[mon.toLowerCase()]
MonthNum(c) == CHOOSE i \in 1..12 : MonthNames[i] = c

\* The text as one string: the lines joined by line breaks.
RECURSIVE JoinLines(_)
JoinLines(t) ==
    IF Len(t) = 0 THEN <<>>
    ELSE IF Len(t) = 1 THEN t[1]
    ELSE t[1] \o <<"\n">> \o JoinLines(Tail(t))

IsWhite(c) == c = " " \/ c = "\n"

RECURSIVE WhiteRun(_, _)
WhiteRun(s, q) == IF q <= Len(s) /\ IsWhite(s[q]) THEN 1 + WhiteRun(s, q + 1) ELSE 0

NoLabel == [found |-> FALSE, mon |-> "", year |-> <<>>]

\* detectMonth(txt): the first <month name>\s+20\d{2}, as [month, year].
detectMonth(t) ==
    LET s == JoinLines(t)
        hit(p) == LET w == WhiteRun(s, p + 1)
                      q == p + 1 + w
                  IN /\ IsMonthName(s[p])
                     /\ w >= 1
                     /\ q + 3 <= Len(s)
                     /\ s[q] = "2" /\ s[q + 1] = "0"
                     /\ IsDigit(s[q + 2]) /\ IsDigit(s[q + 3])
        hits == {p \in 1..Len(s) : hit(p)}
    IN IF hits = {} THEN NoLabel
       ELSE LET p == Min(hits)
                q == p + 1 + WhiteRun(s, p + 1)
            IN [found |-> TRUE, mon |-> s[p], year |-> SubSeq(s, q, q + 3)]

\* fallbackMonth(): the month before the local date, as "<Month> <year>"
\* (toLocaleDateString in the en-US locale of the server).
fallbackMonth(loc) ==
    LET y == IF loc.m = 1 THEN loc.y - 1 ELSE loc.y
        m == IF loc.m = 1 THEN 12 ELSE loc.m - 1
    IN [found |-> TRUE, mon |-> MonthNames[m], year |-> ToDigits(y)]

\* monthKeyFromLabel(label): `${yy}-${String(mm).padStart(2, "0")}`
monthKeyFromLabel(label) ==
    ToDigits(DecVal(label.year)) \o <<"-">> \o padStart2(ToDigits(MonthNum(label.mon)))

\* key.split("-").map(Number)
SplitKey(key) ==
    LET dash == Min({p \in 1..Len(key) : key[p] = "-"})
    IN <<DecVal(SubSeq(key, 1, dash - 1)), DecVal(SubSeq(key, dash + 1, Len(key)))>>

SfUrl == "https://www.narrpr.com/reports-v2/c296fac6-035d-4e9a-84fd-28455ab0339f/pdf"
CondoUrl == "https://www.narrpr.com/reports-v2/5a675486-5c7b-4bb0-9946-0cffa3070f05/pdf"
HomeUrl == "https://www.narrpr.com/"

PendingHead == [st |-> "pending", lastModified |-> NullDate]
PendingPdf == [st |-> "pending", text |-> <<>>]
NoResp == [status |-> 0, updatedAt |-> <<>>, months |-> {}, error |-> FALSE]
NoEnv == [override |-> NoStr, tz |-> "utc", utc |-> NullDate, loc |-> NullDate]

(***************************************************************************)
(* parseMetrics of api/waukesha.js (second variant).  It reads the text as *)
(* one string; distances are counted in characters, a phrase counting for  *)
(* its length.  A value is null, NaN or a number.                          *)
(***************************************************************************)
NullVal == [k |-> "null", v |-> 0]
NaNVal == [k |-> "nan", v |-> 0]
NumVal(n) == [k |-> "num", v |-> n]

NumOfProperties == "# of Properties -"
DaysOnMarket == "Days on Market"
DaysWord == "days"

Width(c) == Len(c)

RECURSIVE Span(_, _, _)
\* The number of characters of s from element a up to, not including, b.
Span(s, a, b) == IF a >= b THEN 0 ELSE Width(s[a]) + Span(s, a + 1, b)

\* The first position from p on whose character is in set; 0 if there is none.
FirstIn(s, p, set) ==
    LET c == {q \in p..Len(s) : s[q] \in set} IN IF c = {} THEN 0 ELSE Min(c)

RECURSIVE RunOf(_, _, _)
\* The number of characters of set in a row from position q on.
RunOf(s, q, set) ==
    IF q <= Len(s) /\ s[q] \in set THEN 1 + RunOf(s, q + 1, set) ELSE 0

\* s[p..q) matches \$?\s* (dollar) or is empty (otherwise).
IsLead(s, p, q, dollar) ==
    IF dollar
    THEN \A r \in p..(q - 1) : IsWhite(s[r]) \/ (r = p /\ s[r] = "$")
    ELSE p = q

\* text.match(/<label>[\s\S]{0,W}?<lead>([set]+)/)?.[1]: for the leftmost
\* label that has one, the run of set characters that starts at most W
\* characters (and the lead) after it; <<>> without a match.
LazyCapture(s, labels, W, set, dollar) ==
    LET ok(i) == LET q == FirstIn(s, i + 1, set) IN
                 /\ s[i] \in labels
                 /\ q # 0
                 /\ \E p \in (i + 1)..q :
                        Span(s, i + 1, p) <= W /\ IsLead(s, p, q, dollar)
        hits == {i \in 1..Len(s) : ok(i)}
    IN IF hits = {} THEN <<>>
       ELSE LET q == FirstIn(s, Min(hits) + 1, set)
            IN SubSeq(s, q, q + RunOf(s, q, set) - 1)

\* Number(m[1].replace(/,/g, "")) of a run of digits and commas ("" is 0).
NumberOfInt(cap) == DecVal(SelectSeq(cap, IsDigit))

\* Number(m[1]) of a run of digits and points, in hundredths: NaN unless it
\* is digits with at most one point (the texts considered carry at most two
\* fractional digits).
NumberOfDec(cap) ==
    LET dots == {p \in 1..Len(cap) : cap[p] = "."} IN
    IF Cardinality(dots) > 1 \/ Cardinality(dots) = Len(cap) THEN NaNVal
    ELSE IF dots = {} THEN NumVal(100 * DecVal(cap))
    ELSE LET d == Min(dots)
             f == Len(cap) - d
             frac == IF f = 0 THEN 0
                     ELSE IF f = 1 THEN 10 * DigitVal(cap[d + 1])
                     ELSE 10 * DigitVal(cap[d + 1]) + DigitVal(cap[d + 2])
         IN NumVal(100 * DecVal(SubSeq(cap, 1, d - 1)) + frac)

PriceLabels == {MedianSoldPrice}
SupplyLabels == {MonthsOfInventory}
DomLabels == {MedianDaysInRPR, DaysOnMarket}
ClosedLabels == {ClosedSales}
NumChars == Digits \cup {","}
DecChars == Digits \cup {"."}

PriceWindow == 120
SupplyWindow == 120
NearSpan == 800
DomWindow == 200
ActiveWindow == 2000

\* (?!\s*%) at position x
NoPercentAt(s, x) ==
    LET y == x + WhiteRun(s, x) IN ~(y <= Len(s) /\ s[y] = "%")

\* A label of the set starts within span characters after position x.
LabelWithin(s, x, labels, span) ==
    \E j \in x..Len(s) : s[j] \in labels /\ Span(s, x, j) <= span

\* What follows the number in the expression: nothing (step a, labels = {}),
\* or [\s\S]{0,span}<label> (step b).
RestOK(s, x, labels, span) == labels = {} \/ LabelWithin(s, x, labels, span)

\* (?:\.\d+)?(?!\s*%)<rest> from position e on: whether some way of taking
\* the optional fraction leaves no percent sign ahead and lets rest match.
TailOK(s, e, labels, span) ==
    LET n == IF e < Len(s) /\ s[e] = "." THEN DigitRun(s, e + 1) ELSE 0
    IN \E j \in 0..n :
          LET x == IF j = 0 THEN e ELSE e + 1 + j
          IN NoPercentAt(s, x) /\ RestOK(s, x, labels, span)

\* (\d{1,3}(?:,\d{3})+|\d{1,4})(?:\.\d+)?(?!\s*%)<rest> tried at position p:
\* the position after the captured integer part, 0 if it does not match.
\* The matcher tries the grouped form first (alt 1: k digits, the most first,
\* then g groups, the most first), then one to four digits (alt 2, the most
\* first), and keeps the first that lets the rest of the expression match.
NumEndAt(s, p, labels, span) ==
    LET run == DigitRun(s, p)
        groups(k) == (GroupEnd(s, p + k) - (p + k)) \div 4
        end(c) == p + c.k + 4 * c.g
        cands == {c \in [alt : {1, 2}, k : 1..4, g : 0..(Len(s) \div 4)] :
                    /\ c.k <= run
                    /\ IF c.alt = 1
                       THEN c.k <= 3 /\ c.g >= 1 /\ c.g <= groups(c.k)
                       ELSE c.g = 0
                    /\ TailOK(s, end(c), labels, span)}
        before(c, d) ==
            \/ c.alt < d.alt
            \/ c.alt = d.alt /\ c.k > d.k
            \/ c.alt = d.alt /\ c.k = d.k /\ c.g > d.g
    IN IF cands = {} THEN 0
       ELSE end(CHOOSE c \in cands : \A d \in cands : d = c \/ before(c, d))

\* The leftmost position of s where the number expression matches, with the
\* position after its integer part; <<0, 0>> without a match.
NumMatch(s, labels, span) ==
    LET ends == [p \in 1..Len(s) |-> NumEndAt(s, p, labels, span)]
        hits == {p \in 1..Len(s) : ends[p] # 0}
    IN IF hits = {} THEN <<0, 0>> ELSE <<Min(hits), ends[Min(hits)]>>

\* window.match(/#\s*of\s*Properties\s*[-–—]\s*([\d,]+)/i)?.[1]
PropertiesCount(w) ==
    LET ok(i) == /\ w[i] = NumOfProperties
                 /\ i + 1 + WhiteRun(w, i + 1) <= Len(w)
                 /\ w[i + 1 + WhiteRun(w, i + 1)] \in NumChars
        hits == {i \in 1..Len(w) : ok(i)}
    IN IF hits = {} THEN <<>>
       ELSE LET q == Min(hits) + 1 + WhiteRun(w, Min(hits) + 1)
            IN SubSeq(w, q, q + RunOf(w, q, NumChars) - 1)

\* text.slice(a.index, Math.min(text.length, a.index + a[0].length + span))
Window(s, i, span) ==
    SubSeq(s, i, Max({j \in i..Len(s) : Span(s, i + 1, j + 1) <= span}))

\* findIntNear(labelRegexSource, text, span = 800)
findIntNear(labels, s, span) ==
    LET at == FirstIn(s, 1, labels)
        w == IF at = 0 THEN <<>> ELSE Window(s, at, span)
        props == PropertiesCount(w)
        a == NumMatch(w, {}, span)
        b == NumMatch(s, labels, span)
    IN IF Len(props) > 0 THEN NumVal(NumberOfInt(props))
       ELSE IF a[1] # 0 THEN NumVal(NumberOfInt(SubSeq(w, a[1], a[2] - 1)))
       ELSE IF b[1] # 0 THEN NumVal(NumberOfInt(SubSeq(s, b[1], b[2] - 1)))
       ELSE NullVal

\* text.match(/\bDays\s+on\s+Market\b[\s\S]{0,200}?([0-9]{1,3})\s*days?/i):
\* the first one to three digits, the most first, that the word follows.
domFallback(s) ==
    LET at == FirstIn(s, 1, {DaysOnMarket})
        word(p, k) == /\ DigitRun(s, p) >= k
                      /\ p + k + WhiteRun(s, p + k) <= Len(s)
                      /\ s[p + k + WhiteRun(s, p + k)] = DaysWord
        hits == {p \in (at + 1)..Len(s) :
                    /\ Span(s, at + 1, p) <= DomWindow
                    /\ \E k \in 1..3 : word(p, k)}
    IN IF at = 0 \/ hits = {} THEN NullVal
       ELSE LET p == Min(hits)
                k == Max({j \in 1..3 : word(p, j)})
            IN NumVal(DecVal(SubSeq(s, p, p + k - 1)))

\* text.match(/Active\s+Listings[\s\S]{0,2000}?#\s*of\s*Properties\s*[-–—]\s*([\d,]+)/i)
activeCount(s) ==
    LET ok(i, j) == /\ s[i] = ActiveListings
                    /\ s[j] = NumOfProperties
                    /\ Span(s, i + 1, j) <= ActiveWindow
                    /\ j + 1 + WhiteRun(s, j + 1) <= Len(s)
                    /\ s[j + 1 + WhiteRun(s, j + 1)] \in NumChars
        starts == {i \in 1..Len(s) : \E j \in (i + 1)..Len(s) : ok(i, j)}
    IN IF starts = {} THEN NullVal
       ELSE LET i == Min(starts)
                j == Min({x \in (i + 1)..Len(s) : ok(i, x)})
                q == j + 1 + WhiteRun(s, j + 1)
            IN NumVal(NumberOfInt(SubSeq(s, q, q + RunOf(s, q, NumChars) - 1)))

\* \w at the edge of an element: a digit, or a word or phrase of letters.
IsWordChar(c) == IsDigit(c) \/ c = "_" \/ (Len(c) > 1 /\ c # NumOfProperties)

\* monthKeyFrom(text).  Of its three label expressions the characters
\* considered can match the last, /\b([A-Za-z]+\s+\d{4})\b/: letters, blanks,
\* four digits and then no word character.  `new Date(label + " 1")` is the
\* first of that month when the word is a month name; the key comes from the
\* local getters.  Without such a label the key is the local month of now.
monthKeyFrom(s, loc) ==
    LET hit(p) == LET w == WhiteRun(s, p + 1)
                      q == p + 1 + w
                  IN /\ IsMonthName(s[p])
                     /\ (p = 1 \/ ~IsWordChar(s[p - 1]))
                     /\ w >= 1
                     /\ DigitRun(s, q) = 4
                     /\ (q + 4 > Len(s) \/ ~IsWordChar(s[q + 4]))
        hits == {p \in 1..Len(s) : hit(p)}
    IN IF hits = {}
       THEN ToDigits(loc.y) \o <<"-">> \o padStart2(ToDigits(loc.m))
       ELSE LET p == Min(hits)
                q == p + 1 + WhiteRun(s, p + 1)
            IN ToDigits(DecVal(SubSeq(s, q, q + 3))) \o <<"-">>
                   \o padStart2(ToDigits(MonthNum(s[p])))

\* parseMetrics(text)
parseMetrics(t, loc) ==
    LET s == JoinLines(t)
        price == LazyCapture(s, PriceLabels, PriceWindow, NumChars, TRUE)
        supply == LazyCapture(s, SupplyLabels, SupplyWindow, DecChars, FALSE)
        near == [m \in {"dom", "closed"} |->
                    findIntNear(IF m = "dom" THEN DomLabels ELSE ClosedLabels, s, NearSpan)]
    IN [ medianPrice |-> IF Len(price) > 0 THEN NumVal(NumberOfInt(price)) ELSE NullVal,
         monthsSupply |-> IF Len(supply) > 0 THEN NumberOfDec(supply) ELSE NullVal,
         dom |-> IF near["dom"].k = "null" THEN domFallback(s) ELSE near["dom"],
         closed |-> near["closed"],
         activeListings |-> activeCount(s),
         monthKey |-> monthKeyFrom(s, loc) ]

\* The components that take no part in a specification stay as they are here.
ParseOff ==
    /\ txt = <<>> /\ out = emptyStats /\ ppc = "off"
    /\ oth = <<>> /\ mid = emptyStats /\ rep = emptyStats
LiveOff ==
    /\ lpc = "off"
    /\ env = NoEnv
    /\ head = [d \in Docs |-> PendingHead]
    /\ pdf = [d \in Docs |-> PendingPdf]
    /\ updatedAt = NoStr
    /\ resp = NoResp

PayloadFields == Metrics \cup {"newListings"}
NoMetrics ==
    [medianPrice |-> NullVal, closed |-> NullVal, dom |-> NullVal,
     monthsSupply |-> NullVal, activeListings |-> NullVal, monthKey |-> <<>>]
PendingFetch == [st |-> "pending", text |-> <<>>, why |-> ""]
NoStatsReq == [method |-> "", cron |-> FALSE, clock |-> [tz |-> "utc", utc |-> NullDate, loc |-> NullDate]]
NoStatsResp ==
    [status |-> 0, error |-> FALSE, updatedAt |-> <<>>, months |-> {}, found |-> NoMetrics]

StatsOff ==
    /\ spc = "off"
    /\ sreq = NoStatsReq
    /\ sfet = [d \in Docs |-> PendingFetch]
    /\ smet = [d \in Docs |-> NoMetrics]
    /\ sresp = NoStatsResp

Tasks == {"landmarkCU", "summitCU"}
NoTask == [prom |-> "none", timer |-> "none", due |-> 0, aborted |-> FALSE, out |-> "none"]
NoRatesResp == [status |-> 0, lenders |-> {}, fallback |-> 0, error |-> FALSE]

TimeOff ==
    /\ tpc = "off"
    /\ tvar = "none"
    /\ tnow = 0
    /\ ttask = [i \in Tasks |-> NoTask]
    /\ tresp = NoRatesResp

\* The rates handlers with the in-memory cache (api/rates.js, first variant,
\* and unnamed/part_004, first variant).  An invocation is one call of the
\* handler; several can be under way in one warm process.
Invocations == {1, 2}

\* A payload { generatedAt, lenders }, or null.
NoPayload == [nil |-> TRUE, gen |-> 0, lenders |-> <<>>]

\* let CACHE = { ts: 0, data: null }
EmptyCache == [ts |-> 0, data |-> NoPayload]

NoAnswer == [kind |-> "none", hit |-> FALSE, body |-> NoPayload]
IdleInvocation == [pc |-> "idle", debug |-> "none", now |-> 0, got |-> {}, resp |-> NoAnswer]

RatesOff ==
    /\ rbuild = "none"
    /\ rclk = 0
    /\ CACHE = EmptyCache
    /\ rinv = [i \in Invocations |-> IdleInvocation]
    /\ rlast = 0

NoCandidate == [fn |-> "none", raw |-> None, line |-> "plain"]

SaneOff == carg = NoCandidate /\ cret = None /\ cpc = "off"

(***************************************************************************)
(* The texts parseRprStats is applied to: up to MaxLines lines, each one   *)
(* of SampleLines (lines of the kind the RPR reports carry).               *)
(***************************************************************************)
MaxLines == 3

SampleLines ==
    { <<MedianSoldPrice>>,
      <<MedianSoldPrice, " ", "$", "5", "2", "0", ",", "0", "0", "0">>,
      <<MedianSoldPrice, " ", "5", "2", "0", "0", "0", "0">>,
      <<MedianSoldPrice, " ", "$", "2", ",", "5", "0", "0", ",", "0", "0", "0">>,
      <<ClosedSales>>,
      <<ClosedSales, " ", "3", "1", "2">>,
      <<"5", ".", "2", "%", " ", "MoM">>,
      <<"3", "1", "2">>,
      <<MedianDaysInRPR, " ", "4", "8">>,
      <<MonthsOfInventory, " ", "1", ".", "4", "8">>,
      <<ActiveListings>>,
      <<"September", " ", "2", "0", "2", "5">>,
      <<" ">> }

Texts == UNION {[1..n -> SampleLines] : n \in 0..MaxLines}

(***************************************************************************)
(* The extractor alone: a text is given, parseRprStats is called on it.    *)
(***************************************************************************)
Init ==
    /\ txt \in Texts
    /\ out = emptyStats
    /\ ppc = "ready"
    /\ oth = <<>> /\ mid = emptyStats /\ rep = emptyStats
    /\ LiveOff
    /\ StatsOff
    /\ TimeOff
    /\ RatesOff
    /\ SaneOff

\* const stats = parseRprStats(text)
Parse ==
    /\ ppc = "ready"
    /\ out' = parseRprStats(txt)
    /\ ppc' = "parsed"
    /\ UNCHANGED <<txt, oth, mid, rep, notParse>>

\* The texts of the call made in between: the handler parses one document
\* after the other (parseRprStats(sfText), then parseRprStats(condoText)).
OtherTexts ==
    { <<>>,
      << <<ClosedSales, " ", "3", "1", "2">> >>,
      << <<MedianSoldPrice, " ", "$", "5", "2", "0", ",", "0", "0", "0">> >>,
      << <<MonthsOfInventory, " ", "1", ".", "4", "8">>, <<ActiveListings>>, <<"3", "1", "2">> >> }

\* parseRprStats(other), the record of the first call being the last one made
ParseOther ==
    /\ ppc = "parsed"
    /\ \E u \in OtherTexts :
        /\ oth' = u
        /\ mid' = parseCall(u, out)
    /\ ppc' = "other"
    /\ UNCHANGED <<txt, out, rep, notParse>>

\* parseRprStats(text) once more, on the text of the first call
ParseAgain ==
    /\ ppc = "other"
    /\ rep' = parseCall(txt, mid)
    /\ ppc' = "again"
    /\ UNCHANGED <<txt, out, oth, mid, notParse>>

Next ==
    \/ Parse
    \/ ParseOther
    \/ ParseAgain

Spec == Init /\ [][Next]_vars

(***************************************************************************)
(* Reading a text the way the specification describes it, for the claims:  *)
(* a numeric token is a maximal run of digits and thousands separators.    *)
(***************************************************************************)
IsNumChar(c) == IsDigit(c) \/ c = ","

\* The numeric tokens of a line, as <<first, last>> positions.
NumTokens(s) ==
    {t \in (1..Len(s)) \X (1..Len(s)) :
        /\ t[1] <= t[2]
        /\ \A p \in t[1]..t[2] : IsNumChar(s[p])
        /\ \E p \in t[1]..t[2] : IsDigit(s[p])
        /\ (t[1] = 1 \/ ~IsNumChar(s[t[1] - 1]))
        /\ (t[2] = Len(s) \/ ~IsNumChar(s[t[2] + 1]))}

\* Digits only, or one to three digits followed by groups of three.
WellFormedToken(tok) ==
    \/ \A p \in 1..Len(tok) : IsDigit(tok[p])
    \/ /\ DigitRun(tok, 1) \in 1..3
       /\ GroupEnd(tok, DigitRun(tok, 1) + 1) = Len(tok) + 1

TokenValue(tok) == DecVal(SelectSeq(tok, IsDigit))

\* The plausible range of each metric (monthsSupply in hundredths).
InRange(m, n) ==
    CASE m = "medianPrice" -> n >= 20000 /\ n <= 2000000
      [] m = "closed" -> n >= 0 /\ n < 10000
      [] m = "dom" -> n >= 0 /\ n <= 365
      [] m = "monthsSupply" -> n >= 0 /\ n <= 5000
      [] m = "activeListings" -> n >= 0 /\ n < 50000

LabelLines(L) == {x \in (1..Len(L)) \X Metrics : HasLabel(L[x[1]], x[2])}
AllTokens(L) == {x \in (1..Len(L)) \X ((1..20) \X (1..20)) :
                    Len(L[x[1]]) <= 20 /\ x[2] \in NumTokens(L[x[1]])}
LabelPos(line, m) == CHOOSE p \in 1..Len(line) : LabelOf(line[p]) = m

\* The case of C1 for metric m: its label is the only label of the text, on
\* line i, and the text's only numeric token is well formed, plausible for m,
\* and stands after the label on line i or on one of the lines of the window.
C1Case(L, i, m, t) ==
    /\ LabelLines(L) = {<<i, m>>}
    /\ AllTokens(L) = {t}
    /\ t[1] >= i /\ t[1] <= i + LookAheadOf(m)
    /\ (t[1] = i => t[2][1] > LabelPos(L[i], m))
    /\ LET tok == SubSeq(L[t[1]], t[2][1], t[2][2])
       IN WellFormedToken(tok) /\ InRange(m, TokenValue(tok))

\* C1: a known label that occurs once and is followed, on its line or within
\* the look-ahead window, by a single plausible numeric token yields exactly
\* that token's value, whatever its number of digits and with or without
\* thousands separators.
C1_ExactRecovery ==
    ppc = "parsed" =>
        LET L == SplitLines(txt) IN
        \A m \in IntMetrics : \A i \in 1..Len(L) : \A t \in AllTokens(L) :
            C1Case(L, i, m, t) =>
                out[m] = Some(TokenValue(SubSeq(L[t[1]], t[2][1], t[2][2])))

IsPercentLine(line) ==
    /\ \E p \in 1..Len(line) : line[p] = "%" \/ line[p] = "MoM"
    /\ \E p \in 1..Len(line) : IsDigit(line[p])

IsPlainInteger(line) ==
    /\ Len(line) > 0
    /\ \A p \in 1..Len(line) : IsNumChar(line[p])
    /\ WellFormedToken(line)

\* C2: a label line followed first by a percentage-annotated line and then
\* by a plain-integer line, both inside the window, yields the plain integer
\* and never a numeral of the percentage line.
C2_NoiseSkipping ==
    ppc = "parsed" =>
        LET L == SplitLines(txt) IN
        \A m \in IntMetrics : \A i \in 1..Len(L) :
            ( /\ i + 2 <= Len(L)
              /\ LabelLines(L) = {<<i, m>>}
              /\ NumTokens(L[i]) = {}
              /\ IsPercentLine(L[i + 1])
              /\ IsPlainInteger(L[i + 2])
              /\ InRange(m, TokenValue(L[i + 2])) )
            => out[m] = Some(TokenValue(L[i + 2]))

\* Every numeric token of the text is one firstInt reads whole: at most three
\* digits, or grouped by thousands separators.
ReadWhole(L) ==
    \A t \in AllTokens(L) :
        LET tok == SubSeq(L[t[1]], t[2][1], t[2][2])
        IN WellFormedToken(tok) /\ (Len(tok) <= 3 \/ \E p \in 1..Len(tok) : tok[p] = ",")

\* C3: every non-null metric of a returned record lies inside its plausible
\* range (medianPrice 20,000..2,000,000; monthsSupply 0..50; dom 0..365): a
\* candidate outside the range is recorded as null.  Stated for the texts
\* whose numerals firstInt reads whole.
C3_ValuesInRange ==
    (ppc = "parsed" /\ ReadWhole(SplitLines(txt))) =>
        \A m \in {"medianPrice", "monthsSupply", "dom"} :
            ~out[m].nil => InRange(m, out[m].v)

(***************************************************************************)
(* The waukesha-live handler (api/waukesha-live.js, first variant) and     *)
(* what the two report servers answer.                                     *)
(***************************************************************************)
\* A Last-Modified header: absent, a date, or a value Date cannot parse.
AbsentHeader == [k |-> "absent", y |-> 0, m |-> 0, d |-> 0]
GarbageHeader == [k |-> "garbage", y |-> 0, m |-> 0, d |-> 0]
SampleDates == {DateOf(2025, 9, 16), DateOf(2025, 10, 2)}
HeaderValues == {AbsentHeader, GarbageHeader} \cup SampleDates

\* What a fetch settles to: rejected, or a response with its ok flag.
RejectedFetch == [rejected |-> TRUE, ok |-> FALSE, lm |-> AbsentHeader]
HttpResponses ==
    {RejectedFetch}
        \cup {[rejected |-> FALSE, ok |-> o, lm |-> h] : o \in BOOLEAN, h \in HeaderValues}

\* new Date(lm)
newDate(h) == IF h.k = "date" THEN h ELSE InvalidDate

\* headOrByte(url), answered hd to its HEAD and gt to its GET of one byte.
headOrByte(hd, gt) ==
    LET r == IF hd.rejected \/ ~hd.ok THEN gt ELSE hd
        lm == IF r.rejected THEN AbsentHeader ELSE r.lm
    IN IF lm.k = "absent" THEN NullDate ELSE newDate(lm)

\* The sanitized texts of the two reports.
LiveTexts ==
    { <<>>,
      << <<"September", " ", "2", "0", "2", "5">>,
         <<MedianSoldPrice, " ", "$", "5", "2", "0", ",", "0", "0", "0">>,
         <<ClosedSales, " ", "3", "1", "2">> >>,
      << <<MedianSoldPrice, " ", "$", "5", "2", "0", ",", "0", "0", "0">>,
         <<"August", " ", "2", "0", "2", "5">> >>,
      << <<ClosedSales, " ", "3", "1", "2">>,
         <<MedianDaysInRPR, " ", "4", "8">> >> }

\* How fetchPdfText(url) settles: it throws on a network error, on a
\* non-success status and when pdfParse throws; else it returns the text.
PdfOutcomes ==
    {[st |-> "rejected", why |-> w, text |-> <<>>] : w \in {"network", "status", "pdfParse"}}
        \cup {[st |-> "fulfilled", why |-> "", text |-> t] : t \in LiveTexts}

Chars(y1, y2, y3, y4, m1, m2, d1, d2) == <<y1, y2, y3, y4, "-", m1, m2, "-", d1, d2>>

\* process.env.WAU_UPDATED_AT: unset, a YYYY-MM-DD value, another value.
Overrides ==
    { NoStr,
      Str(Chars("2", "0", "2", "5", "0", "9", "2", "0")),
      Str(<<"9", "/", "2", "0", "/", "2", "0", "2", "5">>) }

\* The server's time zone and the instant of the request (its UTC day and
\* its local day).
Clocks ==
    { [tz |-> "utc", utc |-> DateOf(2025, 10, 2), loc |-> DateOf(2025, 10, 2)],
      [tz |-> "east", utc |-> DateOf(2025, 9, 30), loc |-> DateOf(2025, 10, 1)],
      [tz |-> "east", utc |-> DateOf(2025, 10, 2), loc |-> DateOf(2025, 10, 2)],
      [tz |-> "west", utc |-> DateOf(2025, 10, 1), loc |-> DateOf(2025, 9, 30)] }

Envs == {[override |-> o, tz |-> c.tz, utc |-> c.utc, loc |-> c.loc] : o \in Overrides, c \in Clocks}

LiveInit ==
    /\ lpc = "idle"
    /\ env \in Envs
    /\ head = [d \in Docs |-> PendingHead]
    /\ pdf = [d \in Docs |-> PendingPdf]
    /\ updatedAt = NoStr
    /\ resp = NoResp
    /\ ParseOff
    /\ StatsOff
    /\ TimeOff
    /\ RatesOff
    /\ SaneOff

\* handler(req, res) is entered; both headOrByte calls start.
LiveRequest ==
    /\ lpc = "idle"
    /\ lpc' = "heads"
    /\ UNCHANGED <<env, head, pdf, updatedAt, resp, notLive>>

\* headOrByte(url) of document d resolves (it never rejects).
LiveHead(d) ==
    /\ lpc = "heads"
    /\ head[d].st = "pending"
    /\ \E hd \in HttpResponses, gt \in HttpResponses :
          head' = [head EXCEPT ![d] = [st |-> "done", lastModified |-> headOrByte(hd, gt)]]
    /\ UNCHANGED <<lpc, env, pdf, updatedAt, resp, notLive>>

\* Both heads are in: updatedAt from Last-Modified, else from the override;
\* both fetchPdfText calls start.
LiveAfterHeads ==
    /\ lpc = "heads"
    /\ \A d \in Docs : head[d].st = "done"
    /\ LET lmDates == {head[d].lastModified : d \in Docs} \ {NullDate}
           u1 == IF lmDates # {} THEN Str(ymd(NewestOf(lmDates))) ELSE NoStr
           u2 == IF u1.nil /\ ~env.override.nil /\ IsYmdForm(env.override.s)
                 THEN Str(env.override.s) ELSE u1
       IN updatedAt' = u2
    /\ lpc' = "pdfs"
    /\ UNCHANGED <<env, head, pdf, resp, notLive>>

\* fetchPdfText(url) of document d settles.  Once one has rejected the catch
\* block runs before anything else; a fetch still in flight when the response
\* is sent settles afterwards, unheeded.
LivePdf(d) ==
    /\ \/ lpc = "pdfs" /\ \A e \in Docs : pdf[e].st # "rejected"
       \/ lpc = "done"
    /\ pdf[d].st = "pending"
    /\ \E o \in PdfOutcomes : pdf' = [pdf EXCEPT ![d] = o]
    /\ UNCHANGED <<lpc, env, head, updatedAt, resp, notLive>>

\* Both texts are in: month key, the two records, the response.
LiveRespond ==
    /\ lpc = "pdfs"
    /\ \A d \in Docs : pdf[d].st = "fulfilled"
    /\ LET found == [d \in Docs |-> detectMonth(pdf[d].text)]
           stats == [d \in Docs |-> parseRprStats(pdf[d].text)]
           monthLabel == IF found["sf"].found THEN found["sf"]
                         ELSE IF found["condo"].found THEN found["condo"]
                         ELSE fallbackMonth(env.loc)
           key == monthKeyFromLabel(monthLabel)
           months == {[key |-> key,
                       sf |-> stats["sf"],
                       condo |-> stats["condo"],
                       sfReport |-> SfUrl,
                       condoReport |-> CondoUrl]}
           u3 == IF updatedAt.nil
                 THEN ymd(LocalFirstOfMonth(SplitKey(key)[1], SplitKey(key)[2], env.tz))
                 ELSE updatedAt.s
       IN resp' = [status |-> 200, updatedAt |-> u3, months |-> months, error |-> FALSE]
    /\ lpc' = "done"
    /\ UNCHANGED <<env, head, pdf, updatedAt, notLive>>

\* Promise.all rejects as soon as one fetchPdfText rejects: the catch block.
LiveCatch ==
    /\ lpc = "pdfs"
    /\ \E d \in Docs : pdf[d].st = "rejected"
    /\ LET key == ToDigits(env.loc.y) \o <<"-">> \o padStart2(ToDigits(env.loc.m))
           months == {[key |-> key,
                       sf |-> emptyStats,
                       condo |-> emptyStats,
                       sfReport |-> HomeUrl,
                       condoReport |-> HomeUrl]}
       IN resp' = [status |-> 200, updatedAt |-> ymd(env.utc), months |-> months,
                   error |-> TRUE]
    /\ lpc' = "done"
    /\ UNCHANGED <<env, head, pdf, updatedAt, notLive>>

LiveNext ==
    \/ LiveRequest
    \/ \E d \in Docs : LiveHead(d)
    \/ LiveAfterHeads
    \/ \E d \in Docs : LivePdf(d)
    \/ LiveRespond
    \/ LiveCatch

LiveSpec == LiveInit /\ [][LiveNext]_vars

(***************************************************************************)
(* The waukesha handler (api/waukesha.js, second variant).                 *)
(***************************************************************************)
\* JSON.stringify of a value: NaN is written as null.
Json(v) == IF v.k = "nan" THEN NullVal ELSE v
JsonMetrics(r) == [f \in DOMAIN r |-> IF f = "monthKey" THEN r[f] ELSE Json(r[f])]

\* a ?? b
Nullish(a, b) == IF a.k = "null" THEN b ELSE a

\* v == null
IsNull(v) == v.k = "null"

\* How fetchTextFromPdf(url) can end: fetch rejects, the status is not ok,
\* the content type is not a PDF, pdf-parse throws, or the text comes back.
StatsTexts ==
    { <<>>,
      << <<"September", " ", "2", "0", "2", "5">>,
         <<MedianSoldPrice, " ", "$", "5", "2", "0", ",", "0", "0", "0">>,
         <<ClosedSales, " ", "3", "1", "2">>,
         <<MedianDaysInRPR, " ", "4", "8">>,
         <<MonthsOfInventory, " ", "1", ".", "4", "8">>,
         <<ActiveListings>>,
         <<NumOfProperties, " ", "1", ",", "2", "0", "4">> >>,
      << <<MedianSoldPrice, " ", "$", "3", "1", "0", ",", "0", "0", "0">>,
         <<ClosedSales, " ", "8", "8">>,
         <<MedianDaysInRPR, " ", "3", "0">>,
         <<MonthsOfInventory, " ", "2", ".", "1">> >>,
      << <<MedianSoldPrice, " ", "$", "5", "2", "0", ",", "0", "0", "0">>,
         <<ClosedSales, " ", "3", "1", "2">> >>,
      << <<MedianSoldPrice, ",", " ", "$", "5", "2", "0", ",", "0", "0", "0">>,
         <<ClosedSales>>,
         <<"5", ".", "2", "%", " ", "MoM">>,
         <<"3", "1", "2">>,
         <<MedianDaysInRPR, " ", "4", "8">>,
         <<MonthsOfInventory, " ", ".">> >> }

FetchOutcomes ==
    {[st |-> "threw", text |-> <<>>, why |-> w] :
        w \in {"network", "status", "contentType", "pdfParse"}}
    \cup {[st |-> "text", text |-> t, why |-> ""] : t \in StatsTexts}

StatsRequests ==
    [method : {"GET", "OPTIONS"}, cron : BOOLEAN, clock : Clocks]

StatsInit ==
    /\ spc = "idle"
    /\ sreq \in StatsRequests
    /\ sfet = [d \in Docs |-> PendingFetch]
    /\ smet = [d \in Docs |-> NoMetrics]
    /\ sresp = NoStatsResp
    /\ ParseOff
    /\ LiveOff
    /\ TimeOff
    /\ RatesOff
    /\ SaneOff

\* if (req.method === "OPTIONS") return res.status(200).end();
\* otherwise the single-family fetch starts.
StatsRequest ==
    /\ spc = "idle"
    /\ IF sreq.method = "OPTIONS"
       THEN spc' = "done" /\ sresp' = [NoStatsResp EXCEPT !.status = 200]
       ELSE spc' = "sf" /\ UNCHANGED sresp
    /\ UNCHANGED <<sreq, sfet, smet, notStats>>

\* await fetchTextFromPdf(SF_PDF_URL): a throw goes to the outer catch, which
\* answers 500; a text is parsed and the condo fetch starts.
StatsSf ==
    /\ spc = "sf"
    /\ \E o \in FetchOutcomes :
        /\ sfet' = [sfet EXCEPT !["sf"] = o]
        /\ IF o.st = "threw"
           THEN /\ sresp' = [NoStatsResp EXCEPT !.status = 500, !.error = TRUE]
                /\ spc' = "done"
                /\ UNCHANGED smet
           ELSE /\ smet' = [smet EXCEPT !["sf"] = parseMetrics(o.text, sreq.clock.loc)]
                /\ spc' = "condo"
                /\ UNCHANGED sresp
    /\ UNCHANGED <<sreq, notStats>>

\* The payload of step 4.
Payload(sf, condo, condoReportUrl, clock) ==
    [NoStatsResp EXCEPT
        !.updatedAt = ymd(clock.utc),
        !.months =
            { [ key |-> sf.monthKey,
                sf |-> [f \in PayloadFields |->
                          IF f = "newListings" THEN NullVal ELSE Json(sf[f])],
                condo |-> [f \in PayloadFields |->
                          IF f = "newListings" THEN NullVal
                          ELSE Json(Nullish(condo[f], sf[f]))],
                sfReport |-> SfUrl,
                condoReport |-> condoReportUrl ] }]

\* await fetchTextFromPdf(CONDO_PDF_URL) inside the inner try: a throw leaves
\* condo mirroring sf.  Then 422 if a core single-family metric is null;
\* otherwise the payload is built, and sent unless the sitemap pings of a
\* cron run come first.
StatsCondo ==
    /\ spc = "condo"
    /\ \E o \in FetchOutcomes :
        LET sf == smet["sf"]
            condo == IF o.st = "threw" THEN sf ELSE parseMetrics(o.text, sreq.clock.loc)
            url == IF o.st = "threw" THEN SfUrl ELSE CondoUrl
        IN /\ sfet' = [sfet EXCEPT !["condo"] = o]
           /\ smet' = [smet EXCEPT !["condo"] = condo]
           /\ IF \E f \in {"medianPrice", "closed", "dom", "monthsSupply"} : IsNull(sf[f])
              THEN /\ sresp' = [NoStatsResp EXCEPT !.status = 422, !.error = TRUE,
                                                   !.found = JsonMetrics(sf)]
                   /\ spc' = "done"
              ELSE IF sreq.cron
              THEN /\ sresp' = Payload(sf, condo, url, sreq.clock)
                   /\ spc' = "ping"
              ELSE /\ sresp' = [Payload(sf, condo, url, sreq.clock) EXCEPT !.status = 200]
                   /\ spc' = "done"
    /\ UNCHANGED <<sreq, notStats>>

\* await Promise.race([ping, timer of 1000 ms]) is over, whatever the pings
\* did: return res.status(200).json(payload)
StatsPing ==
    /\ spc = "ping"
    /\ sresp' = [sresp EXCEPT !.status = 200]
    /\ spc' = "done"
    /\ UNCHANGED <<sreq, sfet, smet, notStats>>

StatsNext ==
    \/ StatsRequest
    \/ StatsSf
    \/ StatsCondo
    \/ StatsPing

StatsSpec == StatsInit /\ [][StatsNext]_vars

\* C5: the stats handlers never answer with a 5xx status: whatever the
\* upstream outcome of a source document (network error, non-success status,
\* non-PDF content type, text without the metrics) the response sent has
\* status 200.
C5_NeverServerError ==
    spc = "done" => sresp.status = 200

(***************************************************************************)
(* withTimeout and the rates handler that awaits it (unnamed/part_008,     *)
(* first variant; withTimeout also as in api/rates.js).  Time is counted   *)
(* in seconds; a timer that is due fires before time moves on.             *)
(***************************************************************************)
MaxTime == 9
TimeoutAbort == 6
TimeoutRace == 7
FallbackCount == 3

\* The ms the handler passes to withTimeout, in seconds.
TimeoutOf(variant) == IF variant = "abort" THEN TimeoutAbort ELSE TimeoutRace

TimeInit ==
    /\ tpc = "idle"
    /\ tvar \in {"abort", "race"}
    /\ tnow = 0
    /\ ttask = [i \in Tasks |-> NoTask]
    /\ tresp = NoRatesResp
    /\ ParseOff
    /\ LiveOff
    /\ StatsOff
    /\ RatesOff
    /\ SaneOff

\* A second goes by, unless a timer is due.
TimeTick ==
    /\ tnow < MaxTime
    /\ \A i \in Tasks : ttask[i].timer = "armed" => tnow < ttask[i].due
    /\ tnow' = tnow + 1
    /\ UNCHANGED <<tpc, tvar, ttask, tresp, notTime>>

\* The handler is called: every task starts its fetch, and withTimeout(task,
\* ms) sets its timer and awaits (abort) or races (race) the task.
TimeRequest ==
    /\ tpc = "idle"
    /\ tpc' = "waiting"
    /\ ttask' = [i \in Tasks |->
                    [prom |-> "pending", timer |-> "armed",
                     due |-> tnow + TimeoutOf(tvar), aborted |-> FALSE,
                     out |-> "pending"]]
    /\ UNCHANGED <<tvar, tnow, tresp, notTime>>

\* The wrapped promise of task i settles: fulfilled with a lender, fulfilled
\* with a record that has neither rate nor apr ("empty"), or rejected.
\* abort: `await promise` resumes, clears the timer and returns or throws.
\* race: Promise.race settles with it if the timer has not settled it.
TimeSettle(i) ==
    /\ ttask[i].prom = "pending"
    /\ \E how \in {"fulfilled", "empty", "rejected"} :
        ttask' = [ttask EXCEPT
                    ![i].prom = how,
                    ![i].out = IF ttask[i].out = "pending" THEN how ELSE @,
                    ![i].timer = IF tvar = "abort" /\ @ = "armed" THEN "cleared" ELSE @]
    /\ UNCHANGED <<tpc, tvar, tnow, tresp, notTime>>

\* The timer of task i fires.
\* abort: () => ctrl.abort(), and nothing listens to the signal.
\* race: () => rej(new Error("timeout")), which settles the race if the
\* task has not.
TimeFire(i) ==
    /\ ttask[i].timer = "armed"
    /\ tnow = ttask[i].due
    /\ ttask' = [ttask EXCEPT
                    ![i].timer = "fired",
                    ![i].aborted = IF tvar = "abort" THEN TRUE ELSE @,
                    ![i].out = IF tvar = "race" /\ @ = "pending" THEN "timeout" ELSE @]
    /\ UNCHANGED <<tpc, tvar, tnow, tresp, notTime>>

\* Promise.allSettled has every result: the lenders are the fulfilled values
\* that carry a rate or an apr, padded from fallbackSample() below two.
TimeRespond ==
    /\ tpc = "waiting"
    /\ \A i \in Tasks : ttask[i].out # "pending"
    /\ LET lenders == {i \in Tasks : ttask[i].out = "fulfilled"}
           n == Cardinality(lenders)
       IN tresp' = [status |-> 200,
                    lenders |-> lenders,
                    fallback |-> IF n >= 2 THEN 0
                                 ELSE IF n > 0 THEN Min({FallbackCount, 2 - n})
                                 ELSE FallbackCount,
                    error |-> FALSE]
    /\ tpc' = "done"
    /\ UNCHANGED <<tvar, tnow, ttask, notTime>>

TimeNext ==
    \/ TimeTick
    \/ TimeRequest
    \/ \E i \in Tasks : TimeSettle(i)
    \/ \E i \in Tasks : TimeFire(i)
    \/ TimeRespond

TimeSpec == TimeInit /\ [][TimeNext]_vars

\* C7: every remote fetch is bounded by its timeout: withTimeout(promise, ms)
\* has settled no later than ms after it was called, so that a request is
\* answered even if a remote server never answers.
C7_TimeoutBound ==
    \A i \in Tasks : ttask[i].out = "pending" => tnow <= ttask[i].due

\* C4: when both source-document fetches fail, the response still carries a
\* months entry whose sf and condo records are completely populated (no null
\* metric), and an error field.
C4_FallbackComplete ==
    (lpc = "done" /\ \A d \in Docs : pdf[d].st = "rejected") =>
        /\ resp.error
        /\ resp.months # {}
        /\ \A e \in resp.months : \A m \in Metrics : ~e.sf[m].nil /\ ~e.condo[m].nil

\* C6: failure is isolated per source document: a response sent when one
\* document's fetch has failed and the other's has succeeded carries the
\* metrics extracted from the document that succeeded.
C6_FailureIsolated ==
    [][\A d \in Docs :
          ( /\ lpc = "pdfs" /\ lpc' = "done"
            /\ pdf[d].st = "fulfilled"
            /\ \E e \in Docs : pdf[e].st = "rejected" )
          => \A e \in resp'.months :
                (IF d = "sf" THEN e.sf ELSE e.condo) = parseRprStats(pdf[d].text)]_vars

\* C8: a 200 response that carries no error field has a non-null medianPrice
\* in the sf and in the condo record of every month entry.
C8_RequiredMetricPresent ==
    (lpc = "done" /\ resp.status = 200 /\ ~resp.error) =>
        \A e \in resp.months : ~e.sf["medianPrice"].nil /\ ~e.condo["medianPrice"].nil

\* The Last-Modified dates observed on the two documents.
ObservedDates == {head[d].lastModified : d \in Docs} \ {NullDate}

\* C9: freshness priority: updatedAt is the day of the most recent
\* Last-Modified header observed on the two documents if one was observed;
\* otherwise the WAU_UPDATED_AT override if set and of the form YYYY-MM-DD;
\* otherwise the first day of the detected month key.  Stated for the
\* responses without error field of a server whose clock is not east of UTC,
\* and leaving open what follows when no observed header is a date.
C9_FreshnessPriority ==
    (lpc = "done" /\ ~resp.error /\ env.tz # "east") =>
        LET dates == {D \in ObservedDates : D.k = "date"} IN
        IF dates # {}
        THEN \E D \in dates :
                /\ \A E \in dates : getTime(E) <= getTime(D)
                /\ resp.updatedAt = ymd(D)
        ELSE IF ObservedDates # {} THEN TRUE
        ELSE IF ~env.override.nil /\ IsYmdForm(env.override.s)
        THEN resp.updatedAt = env.override.s
        ELSE \E e \in resp.months :
                resp.updatedAt = e.key \o <<"-", "0", "1">>

\* C10: in every response updatedAt is a string of the form YYYY-MM-DD made
\* of digits, whatever the upstream returns for Last-Modified.
C10_UpdatedAtIsDate ==
    lpc = "done" => IsYmdForm(resp.updatedAt)

(***************************************************************************)
(* Absent labels.                                                          *)
(***************************************************************************)
\* The label of metric m occurs somewhere in text t.
LabelOccurs(t, m) ==
    \E i \in 1..Len(t) : \E p \in 1..Len(t[i]) : LabelOf(t[i][p]) = m

\* C11: for every text in which the label of a metric does not occur (the
\* empty text included), parseRprStats returns null for that metric's key and
\* keeps all five keys in the record.
C11_AbsentLabelIsNull ==
    ppc = "parsed" =>
        /\ DOMAIN out = Metrics
        /\ \A m \in Metrics : ~LabelOccurs(txt, m) => out[m] = None

\* A parsed text that carries digits and the label of one metric, read into
\* the record, while the label of another metric is absent.
C11_Witness ==
    /\ ppc = "parsed"
    /\ \E m \in Metrics : ~LabelOccurs(txt, m)
    /\ \E m \in Metrics : LabelOccurs(txt, m) /\ ~out[m].nil

(***************************************************************************)
(* Tokens without a digit.                                                 *)
(***************************************************************************)
HasDigit(cap) == \E p \in 1..Len(cap) : IsDigit(cap[p])

\* The token parseMetrics captures for metric m in the single-family text.
CapturedFor(m) ==
    LET s == JoinLines(sfet["sf"].text) IN
    IF m = "medianPrice"
    THEN LazyCapture(s, PriceLabels, PriceWindow, NumChars, TRUE)
    ELSE LazyCapture(s, SupplyLabels, SupplyWindow, DecChars, FALSE)

\* C12: a metric whose label is found but whose captured token holds no
\* digit (only separators such as ',' or '.') is recorded as absent, and 0 is
\* recorded for a metric only if the digit 0 stands in the token read.
C12_NoDigitIsAbsent ==
    sfet["sf"].st = "text" =>
        \A m \in {"medianPrice", "monthsSupply"} :
            /\ (Len(CapturedFor(m)) > 0 /\ ~HasDigit(CapturedFor(m)))
                   => smet["sf"][m] = NullVal
            /\ smet["sf"][m] = NumVal(0)
                   => \E p \in 1..Len(CapturedFor(m)) : CapturedFor(m)[p] = "0"

(***************************************************************************)
(* Percentages.  A numeral is a maximal run of digits, thousands           *)
(* separators and decimal points that holds a digit.                       *)
(***************************************************************************)
IsNumeralChar(c) == IsDigit(c) \/ c = "," \/ c = "."

Numerals(s) ==
    {t \in (1..Len(s)) \X (1..Len(s)) :
        /\ t[1] <= t[2]
        /\ \A p \in t[1]..t[2] : IsNumeralChar(s[p])
        /\ \E p \in t[1]..t[2] : IsDigit(s[p])
        /\ (t[1] = 1 \/ ~IsNumeralChar(s[t[1] - 1]))
        /\ (t[2] = Len(s) \/ ~IsNumeralChar(s[t[2] + 1]))}

\* The numeral is followed by a percent sign, white space between allowed.
IsPercentage(s, t) ==
    LET y == t[2] + 1 + WhiteRun(s, t[2] + 1) IN y <= Len(s) /\ s[y] = "%"

\* The values of the leading parts of the percentages of s.
PercentLeads(s) ==
    UNION { {DecVal(SelectSeq(SubSeq(s, t[1], k), IsDigit)) :
                k \in {j \in t[1]..t[2] : IsDigit(s[j])}} :
            t \in {u \in Numerals(s) : IsPercentage(s, u)} }

\* The values of the integer parts of the other numerals of s.
PlainValues(s) ==
    {DecVal(SelectSeq(SubSeq(s, t[1], Min({p \in t[1]..(t[2] + 1) :
                                             p = t[2] + 1 \/ s[p] = "."}) - 1), IsDigit)) :
        t \in {u \in Numerals(s) : ~IsPercentage(s, u)}}

\* C13: percent exclusion: findIntNear never returns a number, or the
\* leading part of a number, that is followed by '%': a value it returns
\* for closed or dom is not read off a percentage of the text.
C13_PercentExcluded ==
    sfet["sf"].st = "text" =>
        LET s == JoinLines(sfet["sf"].text) IN
        \A m \in {"closed", "dom"} :
            smet["sf"][m].k = "num" =>
                smet["sf"][m].v \notin (PercentLeads(s) \ PlainValues(s))

CondoRecordWith(t) ==
    LET sf == parseMetrics(t, sreq.clock.loc)
        threw == sfet["condo"].st = "threw"
        condo == IF threw THEN sf ELSE smet["condo"]
    IN {e.condo : e \in Payload(sf, condo, IF threw THEN SfUrl ELSE CondoUrl,
                                sreq.clock).months}

\* C15: the condo sub-record is a function of the condo document only:
\* with the outcome of the condo fetch unchanged, another single-family text
\* that is also answered with a payload leaves the metric values of the
\* condo sub-record as they are.
C15_DisjointParts ==
    (spc = "done" /\ sresp.status = 200 /\ sfet["condo"].st # "pending") =>
        \A t \in StatsTexts :
            (\A f \in {"medianPrice", "closed", "dom", "monthsSupply"} :
                ~IsNull(parseMetrics(t, sreq.clock.loc)[f]))
            => CondoRecordWith(t) = {e.condo : e \in sresp.months}

(***************************************************************************)
(* The rates handler with its cache: api/rates.js, first variant (build    *)
(* "list": the lenders that answered with a rate, or the fallback sample), *)
(* and unnamed/part_004, first variant (build "merge": each lender merged  *)
(* with its fallback).  Time is counted in units of five minutes; a fetch  *)
(* is cut off after seven seconds, so the clock moves on at most once      *)
(* while an invocation waits.                                              *)
(***************************************************************************)
CacheTtl == 2
MaxLenders == 3
MaxClock == 5

AssociatedBank == "Associated Bank"
LandmarkCU == "Landmark Credit Union"
UWCU == "UW Credit Union"
SummitCU == "Summit Credit Union"

\* The providers in the order of the handler's Promise.all, which is also the
\* order each gives to base(name, rate, apr, url, order).
ProvidersOf(b) ==
    IF b = "list" THEN <<AssociatedBank, LandmarkCU, UWCU>>
    ELSE <<AssociatedBank, UWCU, SummitCU>>

\* The value of ?debug= that selects a provider.
DebugKey(p) ==
    CASE p = AssociatedBank -> "ab"
      [] p = LandmarkCU -> "landmark"
      [] p = UWCU -> "uwcu"
      [] p = SummitCU -> "summit"

\* url.searchParams.get("debug"): null ("none"), a provider, or "all".
DebugsOf(b) ==
    {"none", "all"} \cup {DebugKey(ProvidersOf(b)[k]) : k \in 1..Len(ProvidersOf(b))}

Lender(n, s, r) == [name |-> n, src |-> s, rated |-> r]
Undefined == Lender("", "undefined", FALSE)

\* A fallback sample that names Associated Bank alone.
OneFallback(b) == <<Lender(AssociatedBank, "fallback", TRUE)>>

\* fallbackSample()
fallbackSample(b) ==
    [k \in 1..Len(ProvidersOf(b)) |-> Lender(ProvidersOf(b)[k], "fallback", TRUE)]

\* How a provider's promise can end under withTimeout(..., TIMEOUT_MS): with
\* a lender that carries a rate or an APR ("rated"), with a lender that
\* carries neither ("bare": Associated Bank and UWCU build the lender whatever
\* was parsed), with null (Landmark and Summit, when nothing was read), with
\* an object of debug data alone in their place when debugging ("tap"), with
\* a rejection, or with the timeout.  dbg: the object carries __debug (the
\* lender built from the env override never does).
OutcomesOf(p, flag) ==
    {o \in [kind : {"rated", "bare", "tap", "null", "reject", "timeout"}, dbg : BOOLEAN] :
        /\ o.dbg => flag /\ o.kind \in {"rated", "bare", "tap"}
        /\ o.kind = "bare" => p \in {AssociatedBank, UWCU} /\ o.dbg = flag
        /\ o.kind = "tap" => p \in {LandmarkCU, SummitCU} /\ o.dbg
        /\ o.kind = "null" => p \in {LandmarkCU, SummitCU} /\ ~flag}

\* withTimeout(...).catch(() => null) is null
IsNullResult(o) == o.kind \in {"null", "reject", "timeout"}

Take(s, n) == SubSeq(s, 1, Min({n, Len(s)}))

\* The order a provider passes to base(name, rate, apr, url, order).
orderOf(b, p) ==
    LET at == {k \in 1..Len(ProvidersOf(b)) : ProvidersOf(b)[k] = p}
    IN IF at = {} THEN 99 ELSE Min(at)

\* .sort((a, b) => (a.order ?? 99) - (b.order ?? 99)) of lenders whose names
\* differ
SortByOrder(b, s) ==
    IF Len(s) = 0 THEN s
    ELSE CHOOSE t \in [1..Len(s) -> {s[k] : k \in 1..Len(s)}] :
            /\ \A k \in 1..Len(s) : \E j \in 1..Len(s) : t[j] = s[k]
            /\ \A j, k \in 1..Len(s) :
                  j < k => orderOf(b, t[j].name) <= orderOf(b, t[k].name)

\* The providers whose promise ended with a lender that has a rate or an APR.
Produced(outs) == {p \in DOMAIN outs : outs[p].kind = "rated"}

\* A handler that gives up the live lenders as soon as one provider fails.
AllOrFallback(b, outs) ==
    IF \A p \in DOMAIN outs : outs[p].kind = "rated"
    THEN [k \in 1..Len(ProvidersOf(b)) |-> Lender(ProvidersOf(b)[k], "live", TRUE)]
    ELSE Take(fallbackSample(b), MaxLenders)

\* api/rates.js: [ab, lcu, uw].filter(Boolean).filter(x => x.rate || x.apr),
\* dedupeByName (the names differ), sorted by order, the first MAX_LENDERS;
\* the fallback sample if none is left.
ListLenders(b, outs) ==
    LET kept(p) == ~IsNullResult(outs[p]) /\ outs[p].kind = "rated"
        list == SelectSeq(ProvidersOf(b), kept)
        found == [k \in 1..Len(list) |-> Lender(list[k], "live", TRUE)]
        lenders == Take(SortByOrder(b, found), MaxLenders)
    IN IF Len(lenders) > 0 THEN lenders ELSE Take(fallbackSample(b), MaxLenders)

\* part_004: merged[name] = x ?? FALLBACKS[name], in the fixed order, then
\* .filter(Boolean).slice(0, MAX_LENDERS)
MergeLenders(b, outs) ==
    LET FALLBACKS(p) ==
            LET hits == {k \in 1..Len(fallbackSample(b)) : fallbackSample(b)[k].name = p}
            IN IF hits = {} THEN Undefined ELSE fallbackSample(b)[Max(hits)]
        merged == [k \in 1..Len(ProvidersOf(b)) |->
                     LET p == ProvidersOf(b)[k] IN
                     IF IsNullResult(outs[p]) THEN FALLBACKS(p)
                     ELSE Lender(p, "live", outs[p].kind = "rated")]
        boolean(x) == x # Undefined
    IN Take(SelectSeq(merged, boolean), MaxLenders)

\* A cache test that still serves a payload whose age has reached the TTL.
StaleAllowed(cache, now) == ~cache.data.nil /\ now - cache.ts <= CacheTtl

\* CACHE.data && now - CACHE.ts < CACHE_TTL_MS
Fresh(cache, now) == ~cache.data.nil /\ now - cache.ts < CacheTtl

\* A write that never lets the timestamp go back.
NewestTs(cache, now, payload) == [ts |-> Max({cache.ts, now}), data |-> payload]

\* CACHE = { ts: now, data: payload }
CacheWrite(cache, now, payload) == [ts |-> now, data |-> payload]

\* The process is warm; Date.now() is far from 0.
RatesInit ==
    /\ rbuild \in {"list", "merge"}
    /\ rclk = CacheTtl + 1
    /\ CACHE = EmptyCache
    /\ rinv = [i \in Invocations |-> IdleInvocation]
    /\ rlast = 0
    /\ ParseOff
    /\ LiveOff
    /\ StatsOff
    /\ TimeOff
    /\ SaneOff

\* Time passes.
RatesTick ==
    /\ rclk < MaxClock
    /\ \A i \in Invocations : rinv[i].pc = "fetching" => rinv[i].now = rclk
    /\ rclk' = rclk + 1
    /\ UNCHANGED <<rbuild, CACHE, rinv, rlast, notRates>>

\* The handler up to its await: debug and now are read; a request that is
\* not debugging is answered from a warm cache, otherwise the fetches start.
RatesRequest(i) ==
    /\ rinv[i].pc = "idle"
    /\ \E d \in DebugsOf(rbuild) :
        IF d = "none" /\ Fresh(CACHE, rclk)
        THEN rinv' = [rinv EXCEPT ![i] =
                 [pc |-> "done", debug |-> d, now |-> rclk, got |-> {},
                  resp |-> [kind |-> "payload", hit |-> TRUE, body |-> CACHE.data]]]
        ELSE rinv' = [rinv EXCEPT ![i] =
                 [pc |-> "fetching", debug |-> d, now |-> rclk, got |-> {}, resp |-> NoAnswer]]
    /\ UNCHANGED <<rbuild, rclk, CACHE, rlast, notRates>>

\* The handler after its await: the three promises have settled (each
\* carries .catch(() => null), and what follows in the try block is work on
\* arrays, so the catch branch is not taken).  A debug
\* request is answered with the debug data if there is any; otherwise the
\* payload is built, assigned to CACHE with the now of the request, and sent.
\* The invocation is over: of its locals, now and the answer are kept, and
\* with the answer the providers that produced a rate or an APR.
RatesSettle(i) ==
    /\ rinv[i].pc = "fetching"
    /\ LET d == rinv[i].debug
           P == ProvidersOf(rbuild)
           flag(p) == d = DebugKey(p) \/ d = "all"
       IN \E o1 \in OutcomesOf(P[1], flag(P[1])), o2 \in OutcomesOf(P[2], flag(P[2])),
             o3 \in OutcomesOf(P[3], flag(P[3])) :
           LET outs == [p \in {P[1], P[2], P[3]} |->
                          IF p = P[1] THEN o1 ELSE IF p = P[2] THEN o2 ELSE o3]
               payload == [nil |-> FALSE, gen |-> rclk,
                           lenders |-> IF rbuild = "list" THEN ListLenders(rbuild, outs)
                                       ELSE MergeLenders(rbuild, outs)]
           IN IF d = "all" \/ \E p \in DOMAIN outs : d = DebugKey(p) /\ outs[p].dbg
              THEN /\ rinv' = [rinv EXCEPT ![i].pc = "done", ![i].debug = "none",
                                  ![i].resp = [kind |-> "debug", hit |-> FALSE, body |-> NoPayload]]
                   /\ UNCHANGED <<CACHE, rlast>>
              ELSE /\ CACHE' = CacheWrite(CACHE, rinv[i].now, payload)
                   /\ rlast' = i
                   /\ rinv' = [rinv EXCEPT ![i].pc = "done", ![i].debug = "none",
                                  ![i].got = Produced(outs),
                                  ![i].resp = [kind |-> "payload", hit |-> FALSE, body |-> payload]]
    /\ UNCHANGED <<rbuild, rclk, notRates>>

RatesNext ==
    \/ RatesTick
    \/ \E i \in Invocations : RatesRequest(i)
    \/ \E i \in Invocations : RatesSettle(i)

RatesSpec == RatesInit /\ [][RatesNext]_vars

\* C16: a request without a debug parameter is answered from the cache if
\* and only if a payload is cached and now - CACHE.ts < CACHE_TTL_MS; such a
\* hit returns exactly the cached payload, starts no fetch and leaves CACHE
\* unchanged (so a payload is never served once its age reaches the TTL); and
\* hit or miss, the answer has the same shape: a payload with one to
\* MAX_LENDERS lenders.
C16_CacheHitRule ==
    [][\A i \in Invocations :
          /\ (rinv[i].pc = "idle" /\ rinv'[i].pc # "idle" /\ rinv'[i].debug = "none") =>
                LET hit == rinv'[i].resp.hit IN
                /\ hit <=> (~CACHE.data.nil /\ rclk - CACHE.ts < CacheTtl)
                /\ hit => /\ rinv'[i].pc = "done"
                          /\ rinv'[i].resp.body = CACHE.data
                          /\ CACHE' = CACHE
                /\ ~hit => rinv'[i].pc = "fetching"
          /\ (rinv'[i].pc = "done" /\ rinv'[i].resp.kind = "payload") =>
                /\ ~rinv'[i].resp.body.nil
                /\ Len(rinv'[i].resp.body.lenders) \in 1..MaxLenders]_vars

\* A request answered from the cache one tick before the payload expires,
\* with what another invocation had written.
C16_Witness ==
    \E i \in Invocations :
        /\ rinv[i].resp.hit
        /\ rinv[i].now - CACHE.ts = CacheTtl - 1
        /\ rinv[i].resp.body = CACHE.data
        /\ rlast # 0 /\ rlast # i

\* C17: cache writes need no locking: under every interleaving of the
\* invocations CACHE is the initial { ts: 0, data: null } or the ts and the
\* payload of one and the same invocation, and it is the pair of the
\* invocation that assigned last.
C17_LastWriterWins ==
    CACHE = IF rlast = 0 THEN EmptyCache
            ELSE [ts |-> rinv[rlast].now, data |-> rinv[rlast].resp.body]

\* Two invocations overlapped and both assigned CACHE; the one that began
\* earlier assigned last.
C17_Witness ==
    /\ rlast # 0
    /\ \E j \in Invocations \ {rlast} :
        /\ rinv[j].pc = "done" /\ rinv[j].resp.kind = "payload" /\ ~rinv[j].resp.hit
        /\ rinv[j].now > rinv[rlast].now

LenderNames(ls) == [k \in 1..Len(ls) |-> ls[k].name]

\* C20: the handler that merges with fallbacks returns exactly three lenders
\* in every response that is not debug data, in the order Associated Bank,
\* UW Credit Union, Summit Credit Union, whatever the providers did, and
\* also when the answer comes from the cache.
C20_AlwaysThreeLenders ==
    rbuild = "merge" =>
        \A i \in Invocations :
            (rinv[i].pc = "done" /\ rinv[i].resp.kind = "payload") =>
                LenderNames(rinv[i].resp.body.lenders)
                    = <<AssociatedBank, UWCU, SummitCU>>

\* An answer served from the cache of the merging handler, in which a live
\* lender stands next to a fallback.
C20_Witness ==
    /\ rbuild = "merge"
    /\ \E i \in Invocations :
        /\ rinv[i].resp.hit
        /\ \E k \in 1..Len(rinv[i].resp.body.lenders) :
              rinv[i].resp.body.lenders[k].src = "fallback"
        /\ \E k \in 1..Len(rinv[i].resp.body.lenders) :
              rinv[i].resp.body.lenders[k].src = "live"

(***************************************************************************)
(* round1 (api/waukesha-live.js) and the checks of sane (unnamed/part_003) *)
(* on their own: a candidate is given, the function is applied to it.      *)
(* Decimal candidates (round1, mois) are counted in hundredths.            *)
(***************************************************************************)
MaxHundredths == 150

\* const sane = { price(n, line), closed(n), dom(n), mois(n), active(n, line) }
sane(fn, raw, line) ==
    IF ~isNum(raw) THEN None
    ELSE LET n == raw.v IN
         CASE fn = "price" -> IF n >= 20000 /\ n <= 2000000 THEN raw ELSE None
           [] fn = "closed" -> IF n >= 0 /\ n < 10000 THEN raw ELSE None
           [] fn = "dom" -> IF n >= 0 /\ n <= 365 THEN raw ELSE None
           [] fn = "mois" -> IF n >= 0 /\ n < 5000 THEN Some(round1(n)) ELSE None
           [] fn = "active" -> IF line = "price" THEN None
                               ELSE IF n >= 0 /\ n < 50000 THEN raw ELSE None

\* The candidates: what firstInt and firstFloat can read, around the limits
\* of each check; none (null) when no number was found.
CandidatesOf(fn) ==
    CASE fn = "round1" -> {Some(h) : h \in (0 - MaxHundredths)..MaxHundredths}
      [] fn = "price" -> {None} \cup {Some(n) : n \in {0 - 20000, 0, 19999, 20000, 20001,
                                          520000, 1999999, 2000000, 2000001}}
      [] fn = "closed" -> {None} \cup {Some(n) : n \in {0 - 1, 0, 1, 312, 9999, 10000, 10001}}
      [] fn = "dom" -> {None} \cup {Some(n) : n \in {0 - 1, 0, 1, 48, 364, 365, 366}}
      [] fn = "mois" -> {None} \cup {Some(h) : h \in {0 - 100, 0 - 1, 0, 1, 145, 148, 4990,
                                          4995, 4999, 5000, 5001, 5100}}
      [] fn = "active" -> {None} \cup {Some(n) : n \in {0 - 1, 0, 1, 1204, 49999, 50000, 50001}}

SaneInit ==
    /\ carg \in {c \in [fn : {"round1", "price", "closed", "dom", "mois", "active"},
                        raw : UNION {CandidatesOf(f) :
                                f \in {"round1", "price", "closed", "dom", "mois", "active"}},
                        line : {"plain", "price"}] :
                   /\ c.raw \in CandidatesOf(c.fn)
                   /\ c.line = "price" => c.fn \in {"price", "active"}}
    /\ cret = None
    /\ cpc = "ready"
    /\ ParseOff
    /\ LiveOff
    /\ StatsOff
    /\ TimeOff
    /\ RatesOff

\* out.monthsSupply = round1(raw), or sane.<check>(n, line)
SaneApply ==
    /\ cpc = "ready"
    /\ cret' = IF carg.fn = "round1" THEN Some(round1(carg.raw.v))
               ELSE sane(carg.fn, carg.raw, carg.line)
    /\ cpc' = "applied"
    /\ UNCHANGED <<carg, notSane>>

SaneNext == SaneApply

SaneSpec == SaneInit /\ [][SaneNext]_vars

\* The tenth nearest to h hundredths, a tie going away from zero.
HalfAwayFromZero(h) ==
    IF h >= 0 THEN ((h + 5) \div 10) * 10 ELSE 0 - ((((0 - h) + 5) \div 10) * 10)

\* C18: decimal metrics are rounded to one decimal place, ties away from
\* zero: for every input of two fractional digits, positive or negative,
\* round1 and sane.mois return the nearest tenth, and the tenth farther from
\* zero for a value halfway between two tenths.
C18_RoundHalfAway ==
    (cpc = "applied" /\ carg.fn \in {"round1", "mois"} /\ ~cret.nil) =>
        cret.v = HalfAwayFromZero(carg.raw.v)

\* The limits the specification gives (monthsSupply in hundredths).
LimitsOf(fn) ==
    CASE fn = "price" -> <<20000, 2000000>>
      [] fn = "mois" -> <<0, 5000>>
      [] fn = "dom" -> <<0, 365>>

\* C19: the range check is inclusive at both ends: a candidate equal to the
\* minimum or the maximum of its metric is accepted (medianPrice 20,000 and
\* 2,000,000, monthsSupply 0 and 50), and only the values strictly outside
\* are rejected.
C19_InclusiveRange ==
    (cpc = "applied" /\ carg.fn \in {"price", "mois", "dom"} /\ ~carg.raw.nil) =>
        (~cret.nil <=> (carg.raw.v >= LimitsOf(carg.fn)[1]
                        /\ carg.raw.v <= LimitsOf(carg.fn)[2]))

(***************************************************************************)
(* The lenders of a response.                                              *)
(***************************************************************************)
\* C21: every lender entry of a response that is not debug data carries a
\* rate or an APR: a provider whose parse produced neither is replaced by, or
\* dropped in favour of, a fallback entry that has numbers.
C21_EveryLenderHasNumbers ==
    \A i \in Invocations :
        (rinv[i].pc = "done" /\ rinv[i].resp.kind = "payload") =>
            \A k \in 1..Len(rinv[i].resp.body.lenders) :
                rinv[i].resp.body.lenders[k].rated

(***************************************************************************)
(* normalizeRateApr on its own: api/rates.js 227-235 (the same text in     *)
(* unnamed/part_004 492-505), build "swap", and unnamed/part_004 714-718,  *)
(* build "plain".  A rate is a number of percent; undefined and null are   *)
(* None.  trim and toNum leave a number of at most three decimals as it is.*)
(***************************************************************************)
MaxPercent == 7

RateValues == {None} \cup {Some(n) : n \in 0..MaxPercent}

\* function normalizeRateApr(rate, apr)
normalizeRateApr(build, rate, apr) ==
    IF build = "swap"
    THEN IF ~rate.nil /\ apr.nil THEN [rate |-> rate, apr |-> None]
         ELSE IF rate.nil /\ ~apr.nil THEN [rate |-> apr, apr |-> apr]
         ELSE IF ~rate.nil /\ ~apr.nil
         THEN IF apr.v < rate.v THEN [rate |-> apr, apr |-> rate]
              ELSE [rate |-> rate, apr |-> apr]
         ELSE [rate |-> None, apr |-> None]
    ELSE \* r ? trim(r) : undefined, a ? trim(a) : undefined
         [rate |-> IF ~rate.nil /\ rate.v # 0 THEN rate ELSE None,
          apr |-> IF ~apr.nil /\ apr.v # 0 THEN apr ELSE None]

NormInit ==
    /\ carg \in [fn : {"normalizeRateApr"}, build : {"swap", "plain"},
                 rate : RateValues, apr : RateValues]
    /\ cret = [rate |-> None, apr |-> None]
    /\ cpc = "ready"
    /\ ParseOff
    /\ LiveOff
    /\ StatsOff
    /\ TimeOff
    /\ RatesOff

\* const final = normalizeRateApr(rate, apr)
NormApply ==
    /\ cpc = "ready"
    /\ cret' = normalizeRateApr(carg.build, carg.rate, carg.apr)
    /\ cpc' = "applied"
    /\ UNCHANGED <<carg, notSane>>

NormNext == NormApply

NormSpec == NormInit /\ [][NormNext]_vars

\* C22: normalizeRateApr never yields an APR below the base rate and never
\* an APR without a rate: with both present the output has apr >= rate;
\* with only the APR present the output rate is that APR; with only the rate
\* present apr is undefined; with neither both are undefined.
C22_AprNotBelowRate ==
    cpc = "applied" =>
        /\ (~carg.rate.nil /\ ~carg.apr.nil) =>
              ~cret.rate.nil /\ ~cret.apr.nil /\ cret.apr.v >= cret.rate.v
        /\ (carg.rate.nil /\ ~carg.apr.nil) => cret.rate = carg.apr
        /\ (~carg.rate.nil /\ carg.apr.nil) => cret.apr.nil
        /\ (carg.rate.nil /\ carg.apr.nil) => cret.rate.nil /\ cret.apr.nil
        /\ ~cret.apr.nil => ~cret.rate.nil

(***************************************************************************)
(* The providers of api/rates.js (first variant) on their own: what        *)
(* fetchAssociatedBank and fetchUWCU publish, given the env override and   *)
(* what the expressions found in the page.                                 *)
(***************************************************************************)
PercentSamples == {1, 2, 7, 20, 21}
PercentValues == {None} \cup {Some(n) : n \in PercentSamples}

\* twoPercentsNearby(block): null, or { base: the smaller, apr: the larger }
DuoValues ==
    {[nil |-> TRUE, base |-> 0, apr |-> 0]}
    \cup {d \in [nil : {FALSE}, base : PercentSamples, apr : PercentSamples] :
            d.base <= d.apr}

\* function inRange(n)
inRange(n) == ~n.nil /\ n.v >= 2 /\ n.v <= 20

\* function pick(a, b)
pick(a, b) == IF inRange(a) THEN a ELSE IF inRange(b) THEN b ELSE None

\* fetchAssociatedBank: the env override if one of its values is in range;
\* otherwise the labelled values of the page, or the two percents nearby.
fetchAssociatedBank(c) ==
    IF inRange(c.envRate) \/ inRange(c.envApr)
    THEN normalizeRateApr("swap", c.envRate, c.envApr)
    ELSE LET duo == IF c.rate.nil \/ c.apr.nil
                    THEN c.duo ELSE [nil |-> TRUE, base |-> 0, apr |-> 0]
             dbase == IF duo.nil THEN None ELSE Some(duo.base)
             dapr == IF duo.nil THEN None ELSE Some(duo.apr)
         IN normalizeRateApr("swap", pick(c.rate, dbase), pick(c.apr, dapr))

\* fetchUWCU: the env override likewise; otherwise the labelled values of
\* the page as findPercent read them.
fetchUWCU(c) ==
    IF inRange(c.envRate) \/ inRange(c.envApr)
    THEN normalizeRateApr("swap", c.envRate, c.envApr)
    ELSE normalizeRateApr("swap", c.rate, c.apr)

ProviderInit ==
    /\ carg \in {c \in [fn : {"fetchAssociatedBank", "fetchUWCU"},
                        envRate : PercentValues, envApr : PercentValues,
                        rate : PercentValues, apr : PercentValues, duo : DuoValues] :
                   c.fn = "fetchUWCU" => c.duo.nil}
    /\ cret = [rate |-> None, apr |-> None]
    /\ cpc = "ready"
    /\ ParseOff
    /\ LiveOff
    /\ StatsOff
    /\ TimeOff
    /\ RatesOff

\* The provider returns base(name, final.rate, final.apr, url, order).
ProviderApply ==
    /\ cpc = "ready"
    /\ cret' = IF carg.fn = "fetchAssociatedBank" THEN fetchAssociatedBank(carg)
               ELSE fetchUWCU(carg)
    /\ cpc' = "applied"
    /\ UNCHANGED <<carg, notSane>>

ProviderNext == ProviderApply

ProviderSpec == ProviderInit /\ [][ProviderNext]_vars

\* C23: every rate and every APR published for a lender lies in the
\* plausible range of 2 to 20 percent, whichever path produced it: the
\* labelled values of the page, the two percents nearby, or the env
\* override, also when only one of the two override values is in range.
C23_PublishedInRange ==
    cpc = "applied" =>
        /\ ~cret.rate.nil => cret.rate.v >= 2 /\ cret.rate.v <= 20
        /\ ~cret.apr.nil => cret.apr.v >= 2 /\ cret.apr.v <= 20

\* C24: in every response of the rates handler of api/rates.js that carries
\* a payload computed by the request, lenders is non-empty, has at most
\* MAX_LENDERS entries and is in strictly ascending order; when no provider
\* produced a rate or an APR it is the fallback sample; and otherwise it
\* holds, live, exactly the providers that produced one, so the failure or
\* the timeout of one provider removes none of the others.
C24_LendersListShape ==
    \A i \in Invocations :
        (rbuild = "list" /\ rinv[i].pc = "done" /\ rinv[i].resp.kind = "payload"
            /\ ~rinv[i].resp.hit) =>
            LET L == rinv[i].resp.body.lenders IN
            /\ Len(L) \in 1..MaxLenders
            /\ \A j, k \in 1..Len(L) :
                  j < k => orderOf(rbuild, L[j].name) < orderOf(rbuild, L[k].name)
            /\ rinv[i].got = {} => L = Take(fallbackSample(rbuild), MaxLenders)
            /\ rinv[i].got # {} =>
                  /\ {L[k].name : k \in 1..Len(L)} = rinv[i].got
                  /\ \A k \in 1..Len(L) : L[k].src = "live" /\ L[k].rated

\* One provider failed or timed out and the two others are in the answer.
C24_Witness ==
    \E i \in Invocations :
        /\ rbuild = "list" /\ rinv[i].pc = "done" /\ rinv[i].resp.kind = "payload"
        /\ ~rinv[i].resp.hit
        /\ Cardinality(rinv[i].got) = 2
        /\ Len(rinv[i].resp.body.lenders) = 2

(***************************************************************************)
(* dedupeByName of api/rates.js, applied on its own to a list of lenders   *)
(* and then to its own result.                                             *)
(***************************************************************************)
MaxItems == 3

\* The names of the items: missing, blank, and names that differ by case
\* and by the spaces around them.
ItemNames == {<<>>, <<" ">>, <<"a">>, <<"A", " ">>, <<"b">>}

\* The rates of the items: undefined, or a number (0 is what toNum makes of
\* an override that is set and empty).
ItemRates == {None, Some(0), Some(1), Some(2)}

\* .toLowerCase()
toLowerCase(s) == [k \in 1..Len(s) |-> IF s[k] = "A" THEN "a" ELSE s[k]]

\* String(it.name || "").trim().toLowerCase()
keyOf(name) == toLowerCase(Trim(name))

\* it.rate as a condition: undefined and 0 are falsy
Truthy(r) == ~r.nil /\ r.v # 0

\* A dedupe that keeps the first item of each name, whatever the rates.
KeepFirst(items) ==
    LET first(it) == /\ Len(keyOf(it.name)) > 0
                     /\ \A k \in 1..Len(items) :
                           keyOf(items[k].name) = keyOf(it.name) => items[k].at >= it.at
    IN SelectSeq(items, first)

RECURSIVE DedupeLoop(_, _)
\* for (const it of items) { ... } over the Map m, kept in insertion order
DedupeLoop(items, m) ==
    IF Len(items) = 0 THEN m
    ELSE LET it == Head(items)
             key == keyOf(it.name)
             has == {k \in 1..Len(m) : keyOf(m[k].name) = key}
         IN IF Len(key) = 0 THEN DedupeLoop(Tail(items), m)
            ELSE IF has = {} THEN DedupeLoop(Tail(items), Append(m, it))
            ELSE LET cur == m[Min(has)]
                     better ==
                         IF Truthy(it.rate) /\ ~Truthy(cur.rate) THEN it
                         ELSE IF Truthy(it.rate) /\ Truthy(cur.rate)
                              THEN (IF it.rate.v <= cur.rate.v THEN it ELSE cur)
                              ELSE cur
                 IN DedupeLoop(Tail(items), [m EXCEPT ![Min(has)] = better])

\* dedupeByName(items): [...m.values()]
dedupeByName(items) == DedupeLoop(items, <<>>)

\* The list is empty at first.
DedupeInit ==
    /\ carg = [fn |-> "dedupeByName", items |-> <<>>]
    /\ cret = <<>>
    /\ cpc = "ready"
    /\ ParseOff
    /\ LiveOff
    /\ StatsOff
    /\ TimeOff
    /\ RatesOff

\* One more item in the list, up to MaxItems; at tells the items of a list
\* apart.
DedupeItem ==
    /\ cpc = "ready"
    /\ Len(carg.items) < MaxItems
    /\ \E n \in ItemNames, r \in ItemRates :
          carg' = [carg EXCEPT !.items =
                      Append(@, [name |-> n, rate |-> r, at |-> Len(@) + 1])]
    /\ UNCHANGED <<cret, cpc, notSane>>

\* const lenders = dedupeByName(list)
DedupeApply ==
    /\ cpc = "ready"
    /\ cret' = dedupeByName(carg.items)
    /\ cpc' = "applied"
    /\ UNCHANGED <<carg, notSane>>

\* dedupeByName applied to its own result
DedupeAgain ==
    /\ cpc = "applied"
    /\ carg' = [carg EXCEPT !.items = cret]
    /\ cret' = dedupeByName(cret)
    /\ cpc' = "again"
    /\ UNCHANGED notSane

DedupeNext == DedupeItem \/ DedupeApply \/ DedupeAgain

DedupeSpec == DedupeInit /\ [][DedupeNext]_vars

MaxRows == 4

AheadClosed == 4
ForwardClosedSpan == 10
ForwardActiveSpan == 8

HasToken(line, set) == \E p \in 1..Len(line) : line[p] \in set

\* pctOrMoM = /%|MoM/i
pctOrMoM(line) == HasToken(line, {"%", "MoM"})

\* monthRegex = /\b(January|...|December)\b/i
monthRegex(line) ==
    \E p \in 1..Len(line) :
        /\ IsMonthName(line[p])
        /\ (p = 1 \/ ~IsWordChar(line[p - 1]))
        /\ (p = Len(line) \/ ~IsWordChar(line[p + 1]))

\* yearRegex = /\b20\d{2}\b/
yearRegex(line) ==
    \E p \in 1..(Len(line) - 3) :
        /\ line[p] = "2" /\ line[p + 1] = "0"
        /\ IsDigit(line[p + 2]) /\ IsDigit(line[p + 3])
        /\ (p = 1 \/ ~IsWordChar(line[p - 1]))
        /\ (p + 3 = Len(line) \/ ~IsWordChar(line[p + 4]))

\* reMedianPrice = /(median\s+(sold\s+)?price)/i
reMedianPrice(line) == HasToken(line, {MedianSoldPrice})
\* reDom = /(median\s+days\s+(in\s+rpr|on\s+market)|days\s+on\s+market)/i
reDom(line) == HasToken(line, {MedianDaysInRPR, DaysOnMarket})
\* reMonths = /(months\s+of\s+inventory|months\s+(of\s+)?supply)/i
reMonths(line) == HasToken(line, {MonthsOfInventory})
\* reClosedAny = /(closed\s+sales|sold\s+listings|total\s+sales|closed\s+listings)/i
reClosedAny(line) == HasToken(line, {ClosedSales})
\* junkClosed = /(median|price|active|inventory|months|supply|list\s*price|sold\s*to\s*list)/i
junkClosed(line) ==
    HasToken(line, {MedianSoldPrice, MedianDaysInRPR, MonthsOfInventory, ActiveListings})
\* reActiveLabel = /(^|\s)active\s+(listings|residential\s+listings)(\s|$)/i
reActiveLabel(line) == HasLabel(line, "activeListings")
\* junkActive = /(sold|sales|median|price|list\s*price)/i
junkActive(line) == HasToken(line, {MedianSoldPrice, ClosedSales, MedianDaysInRPR})

\* /\$|price/i.test(line), as the line argument of sane
PriceLine(line) == IF HasToken(line, {"$", MedianSoldPrice}) THEN "price" ELSE "plain"

RECURSIVE PickLoopSkip(_, _, _, _)
\* The loop of pickNumberAround in part_003: a line with % or MoM is passed
\* over.
PickLoopSkip(lines, i, hi, asFloat) ==
    IF i > hi THEN None
    ELSE IF pctOrMoM(lines[i]) THEN PickLoopSkip(lines, i + 1, hi, asFloat)
    ELSE LET n == IF asFloat THEN firstFloat(lines[i]) ELSE firstInt(lines[i])
         IN IF ~n.nil THEN n ELSE PickLoopSkip(lines, i + 1, hi, asFloat)

pickNumberSkip(lines, idx, asFloat, lookAhead) ==
    PickLoopSkip(lines, idx, Min({idx + lookAhead, Len(lines)}), asFloat)

\* The lines findForward's pick functions turn down before reading a number.
Skipped(ln, isJunk) == monthRegex(ln) \/ yearRegex(ln) \/ isJunk \/ pctOrMoM(ln)

RECURSIVE ForwardClosed(_, _, _)
\* findForward(lines, i+1, 10, ln => ... sane.closed(firstInt(ln)))
ForwardClosed(lines, j, hi) ==
    IF j > hi THEN None
    ELSE LET v == IF Skipped(lines[j], junkClosed(lines[j])) THEN None
                  ELSE sane("closed", firstInt(lines[j]), "plain")
         IN IF ~v.nil THEN v ELSE ForwardClosed(lines, j + 1, hi)

\* cand != null && (out.closed == null || cand !== out.closed)
NotTheOther(cand, other) == ~cand.nil /\ (other.nil \/ cand.v # other.v)

RECURSIVE ForwardActive(_, _, _, _)
\* findForward(lines, i+1, 8, ln => ... sane.active(firstInt(ln), ln), unless
\* it is out.closed)
ForwardActive(lines, j, hi, closed) ==
    IF j > hi THEN None
    ELSE LET c == IF Skipped(lines[j], junkActive(lines[j])) THEN None
                  ELSE sane("active", firstInt(lines[j]), PriceLine(lines[j]))
             v == IF NotTheOther(c, closed) THEN c ELSE None
         IN IF ~v.nil THEN v ELSE ForwardActive(lines, j + 1, hi, closed)

\* The closed branch: the value it finds, or null.
ClosedBranch(lines, i) ==
    LET line == lines[i]
        fwd == ForwardClosed(lines, i + 1, Min({i + 1 + ForwardClosedSpan, Len(lines)}))
    IN IF monthRegex(line) \/ yearRegex(line) \/ junkClosed(line) THEN fwd
       ELSE LET val == sane("closed",
                            Coalesce(firstInt(line), pickNumberSkip(lines, i + 1, FALSE, AheadClosed)),
                            "plain")
            IN IF ~val.nil THEN val ELSE fwd

\* The activeListings branch: the value it finds, or null.
ActiveBranch(lines, i, closed) ==
    LET line == lines[i]
        fwd == ForwardActive(lines, i + 1, Min({i + 1 + ForwardActiveSpan, Len(lines)}), closed)
    IN IF yearRegex(line) \/ monthRegex(line) \/ junkActive(line) THEN fwd
       ELSE LET cand == sane("active",
                             Coalesce(firstInt(line), pickNumberSkip(lines, i + 1, FALSE, LookAheadActive)),
                             PriceLine(line))
            IN IF NotTheOther(cand, closed) THEN cand ELSE fwd

\* One turn of the loop of part_003.  A branch is entered when its metric is
\* still null and its label expression matches; every branch ends the turn
\* (continue) except the closed branch when it found nothing.
SaneLine(lines, i, acc) ==
    LET line == lines[i]
        set(m, val) == IF val.nil THEN acc ELSE [acc EXCEPT ![m] = val]
        closedVal == IF acc["closed"].nil /\ reClosedAny(line)
                     THEN ClosedBranch(lines, i) ELSE None
    IN IF acc["medianPrice"].nil /\ reMedianPrice(line)
       THEN set("medianPrice",
                sane("price", Coalesce(firstInt(line), pickNumberSkip(lines, i + 1, FALSE, LookAheadPrice)),
                     PriceLine(line)))
       ELSE IF ~closedVal.nil THEN set("closed", closedVal)
       ELSE IF acc["dom"].nil /\ reDom(line)
       THEN set("dom",
                sane("dom", Coalesce(firstInt(line), pickNumberSkip(lines, i + 1, FALSE, LookAheadDom)),
                     "plain"))
       ELSE IF acc["monthsSupply"].nil /\ reMonths(line)
       THEN set("monthsSupply",
                sane("mois",
                     IF yearRegex(line) \/ monthRegex(line)
                     THEN pickNumberSkip(lines, i + 1, TRUE, LookAheadMonths)
                     ELSE Coalesce(firstFloat(line), pickNumberSkip(lines, i + 1, TRUE, LookAheadMonths)),
                     "plain"))
       ELSE IF acc["activeListings"].nil /\ reActiveLabel(line)
       THEN set("activeListings", ActiveBranch(lines, i, acc["closed"]))
       ELSE acc

RECURSIVE SaneLoop(_, _, _)
SaneLoop(lines, i, acc) ==
    IF i > Len(lines) THEN acc
    ELSE SaneLoop(lines, i + 1, SaneLine(lines, i, acc))

\* parseRprStats(txt) of part_003
parseSane(t) ==
    IF Len(t) = 0 THEN emptyStats
    ELSE SaneLoop(SplitLines(t), 1, emptyStats)

\* The lines of the texts given to it.
SaneLines ==
    { <<ClosedSales>>,
      <<ClosedSales, " ", "5", "0">>,
      <<ActiveListings>>,
      <<ActiveListings, " ", "5", "0">>,
      <<ActiveListings, " ", "September", " ", "2", "0", "2", "5">>,
      <<"5", "0">>,
      <<"6", "0">>,
      <<"5", ".", "2", "%", " ", "MoM">>,
      <<MedianSoldPrice, " ", "$", "5", "2", "0", ",", "0", "0", "0">>,
      <<MonthsOfInventory, " ", "1", ".", "4", "8">>,
      <<MedianDaysInRPR>> }

\* The text is empty at first.
SaneTextInit ==
    /\ txt = <<>>
    /\ out = emptyStats
    /\ ppc = "ready"
    /\ oth = <<>> /\ mid = emptyStats /\ rep = emptyStats
    /\ LiveOff
    /\ StatsOff
    /\ TimeOff
    /\ RatesOff
    /\ SaneOff

\* One more line in the text, up to MaxRows.
SaneTextLine ==
    /\ ppc = "ready"
    /\ Len(txt) < MaxRows
    /\ \E l \in SaneLines : txt' = Append(txt, l)
    /\ UNCHANGED <<out, ppc, oth, mid, rep, notParse>>

\* parseRprStats(text)
SaneTextParse ==
    /\ ppc = "ready"
    /\ out' = parseSane(txt)
    /\ ppc' = "parsed"
    /\ UNCHANGED <<txt, oth, mid, rep, notParse>>

SaneTextNext == SaneTextLine \/ SaneTextParse

SaneTextSpec == SaneTextInit /\ [][SaneTextNext]_vars

\* C26: in the record parseRprStats of part_003 returns, closed and
\* activeListings are different numbers whenever both are set, whichever of
\* the two labels comes first in the text.
C26_ClosedAndActiveDiffer ==
    (ppc = "parsed" /\ ~out["closed"].nil /\ ~out["activeListings"].nil) =>
        out["closed"].v # out["activeListings"].v

(***************************************************************************)
(* The month merge of the waukesha-live handler of unnamed/part_003: the   *)
(* months of the stub (/api/waukesha), the month parsed from the reports,  *)
(* the six keys kept.                                                      *)
(***************************************************************************)
KeepMonths == 6
MaxSpan == 9

\* `${yy}-${String(mm).padStart(2, "0")}`
MonthKey(y, m) == ToDigits(y) \o <<"-">> \o padStart2(ToDigits(m))

\* The keys of MaxSpan months in a row, from November 2024 on.
MonthKeys ==
    {MonthKey(2024 + ((10 + n) \div 12), ((10 + n) % 12) + 1) : n \in 0..(MaxSpan - 1)}

\* The code unit order of the characters of a key.
CodeOf(c) == IF c = "-" THEN 0 ELSE 1 + DigitVal(c)

RECURSIVE StrLess(_, _)
\* a < b as Array.prototype.sort() compares two strings
StrLess(a, b) ==
    IF Len(b) = 0 THEN FALSE
    ELSE IF Len(a) = 0 THEN TRUE
    ELSE IF Head(a) # Head(b) THEN CodeOf(Head(a)) < CodeOf(Head(b))
    ELSE StrLess(Tail(a), Tail(b))

\* Object.keys(months).sort().reverse().slice(0, 6)
LatestKeys(keys) ==
    {k \in keys : Cardinality({j \in keys : StrLess(k, j)}) < KeepMonths}

\* The handler's answer.  months = { ...existing.months } if the stub
\* answered with months, {} otherwise; months[key] = the parsed values;
\* trimmed = the entries of the latest keys.  When a report could not be
\* fetched the catch branch answers with the empty record of today's month.
mergeMonths(a) ==
    IF a.failed
    THEN [months |-> [k \in {a.today} |-> "empty"], error |-> TRUE]
    ELSE LET stub == IF a.existing.nil THEN {} ELSE a.existing.keys
             keys == stub \cup {a.key}
             months == [k \in keys |-> IF k = a.key THEN "fresh" ELSE "stub"]
         IN [months |-> [k \in LatestKeys(keys) |-> months[k]], error |-> FALSE]

\* What the stub answered: nothing usable (null), or months under some keys.
StubAnswers == {[nil |-> TRUE, keys |-> {}]} \cup {[nil |-> FALSE, keys |-> K] : K \in SUBSET MonthKeys}

MergeInit ==
    /\ carg \in [fn : {"handler"}, existing : StubAnswers, key : MonthKeys,
                 today : {MonthKey(2025, 7)}, failed : BOOLEAN]
    /\ cret = [months |-> <<>>, error |-> FALSE]
    /\ cpc = "ready"
    /\ ParseOff
    /\ LiveOff
    /\ StatsOff
    /\ TimeOff
    /\ RatesOff

\* res.status(200).json({ updatedAt, months: trimmed })
MergeApply ==
    /\ cpc = "ready"
    /\ cret' = mergeMonths(carg)
    /\ cpc' = "applied"
    /\ UNCHANGED <<carg, notSane>>

MergeNext == MergeApply

MergeSpec == MergeInit /\ [][MergeNext]_vars

\* C27: the months the handler of part_003 returns after parsing the
\* reports are at most six, they are the six greatest keys among the months
\* of the stub and the parsed month, the parsed month is among them, and its
\* entry holds the parsed values even when the stub had an entry of that key.
C27_MonthMerge ==
    (cpc = "applied" /\ ~cret.error) =>
        LET keys == (IF carg.existing.nil THEN {} ELSE carg.existing.keys) \cup {carg.key}
            got == DOMAIN cret.months
        IN /\ Cardinality(got) <= KeepMonths
           /\ got \subseteq keys
           /\ \A k \in got : \A j \in keys \ got : StrLess(j, k)
           /\ Cardinality(got) = KeepMonths \/ got = keys
           /\ carg.key \in got
           /\ carg.key \in got => cret.months[carg.key] = "fresh"

(***************************************************************************)
(* The handler of api/refresh-waukesha.js: the method, the secret of the   *)
(* query, CRON_SECRET of the environment, and the answer.                  *)
(***************************************************************************)
\* A value of the query or of the environment: undefined, a string, or (in
\* the query, when the parameter is repeated) an array of strings.
Undef == [k |-> "undefined", s |-> ""]
StrValue(s) == [k |-> "string", s |-> s]
ArrValue(s) == [k |-> "array", s |-> s]

Methods == {"GET", "POST", "HEAD", "PUT", "DELETE"}
QuerySecrets == {Undef, StrValue(""), StrValue("s3cret"), StrValue("other"), ArrValue("s3cret")}
CronSecrets == {Undef, StrValue(""), StrValue("s3cret"), StrValue("other")}

\* !x for a string or undefined
Falsy(x) == x.k = "undefined" \/ (x.k = "string" /\ x.s = "")

\* A test that only compares the two values.
SameSecret(secret, cron) == secret # cron

\* !process.env.CRON_SECRET || secret !== process.env.CRON_SECRET
Unauthorized(secret, cron) == Falsy(cron) \/ secret # cron

\* handler(req, res): the status sent, and whether the try block (the
\* refresh section) was entered
refreshHandler(a) ==
    IF a.method # "GET" THEN [status |-> 405, section |-> "none"]
    ELSE IF Unauthorized(a.secret, a.cron) THEN [status |-> 401, section |-> "none"]
    ELSE [status |-> 500, section |-> "refresh"]

RefreshInit ==
    /\ carg \in [fn : {"handler"}, method : Methods, secret : QuerySecrets, cron : CronSecrets]
    /\ cret = [status |-> 0, section |-> "none"]
    /\ cpc = "ready"
    /\ ParseOff
    /\ LiveOff
    /\ StatsOff
    /\ TimeOff
    /\ RatesOff

RefreshApply ==
    /\ cpc = "ready"
    /\ cret' = refreshHandler(carg)
    /\ cpc' = "applied"
    /\ UNCHANGED <<carg, notSane>>

RefreshNext == RefreshApply

RefreshSpec == RefreshInit /\ [][RefreshNext]_vars

\* C28: the refresh section is entered only by a GET whose secret is the
\* string CRON_SECRET, CRON_SECRET being set and not empty; every other
\* method is answered 405 whatever the secret; a GET with a missing or
\* different secret is answered 401; and when CRON_SECRET is unset or empty
\* every GET is answered 401, the one that sends no secret included.
C28_RefreshGuard ==
    cpc = "applied" =>
        LET set == carg.cron.k = "string" /\ carg.cron.s # ""
            match == carg.secret.k = "string" /\ set /\ carg.secret.s = carg.cron.s
        IN /\ cret.section = "refresh" <=> (carg.method = "GET" /\ match)
           /\ carg.method # "GET" => cret.status = 405
           /\ (carg.method = "GET" /\ ~match) => cret.status = 401
           /\ (carg.method = "GET" /\ ~set) => cret.status = 401

\* CRON_SECRET is unset, a GET sends no secret, and the answer is 401.
C28_Witness ==
    /\ cpc = "applied"
    /\ carg.method = "GET"
    /\ carg.cron = Undef
    /\ carg.secret = Undef
    /\ cret.status = 401

\* C29: under every interleaving of invocations of the rates handler the
\* timestamp of CACHE never goes backwards, and a request answered from the
\* cache gets a payload computed less than CACHE_TTL_MS before.
C29_CacheTsMonotonic ==
    [][/\ CACHE'.ts >= CACHE.ts
       /\ \A i \in Invocations :
             (rinv[i].pc = "idle" /\ rinv'[i].pc = "done" /\ rinv'[i].resp.hit) =>
                 rclk - rinv'[i].resp.body.gen < CacheTtl]_vars

(***************************************************************************)
(* parseRprStats of api/waukesha-live.js on texts built line by line, long *)
(* enough for a number to stand after the lines pickNumberAround reads.    *)
(***************************************************************************)
MaxWindow == 5

\* A label alone on its line, lines without a digit, and two numbers.
WindowLines ==
    { <<MedianSoldPrice>>,
      <<ClosedSales>>,
      <<"September">>,
      <<"MoM">>,
      <<"3", "1", "2", ",", "0", "0", "0">>,
      <<"4", "8">> }

\* One more line in the text, up to MaxWindow.
WindowLine ==
    /\ ppc = "ready"
    /\ Len(txt) < MaxWindow
    /\ \E l \in WindowLines : txt' = Append(txt, l)
    /\ UNCHANGED <<out, ppc, oth, mid, rep, notParse>>

WindowNext == WindowLine \/ Parse

WindowSpec == SaneTextInit /\ [][WindowNext]_vars

\* C30: a metric that parseRprStats of api/waukesha-live.js has set holds a
\* number read from a line that carries the metric's label or from one of
\* the lookAhead lines after it (2 for medianPrice, dom and monthsSupply, 3
\* for closed and activeListings); with no number on those lines the metric
\* stays null.
C30_WindowBound ==
    ppc = "parsed" =>
        LET lines == SplitLines(txt) IN
        \A m \in IntMetrics :
            ~out[m].nil =>
                \E i \in 1..Len(lines) :
                    /\ HasLabel(lines[i], m)
                    /\ \E j \in i..Min({i + LookAheadOf(m), Len(lines)}) :
                          firstInt(lines[j]) = out[m]

====
